---- MODULE Spec2Model ----
(***************************************************************************)
(* Model of the VulkanSponza deferred renderer (src/src/vulkansponza.cpp): *)
(*   - the named-resource registries (VulkanResourceList and subclasses),  *)
(*   - the scene consolidation of Scene::loadMeshes and the mesh draws     *)
(*     recorded from it,                                                   *)
(*   - the per-frame submission chain of VulkanExample::draw,              *)
(*   - the material import of Scene::loadMaterials,                        *)
(*   - the life cycle of the application: prepare, the uploads of the      *)
(*     scene load, render and the toggles.                                 *)
(* Each part has its own specification (SpecRegistry, SpecScene, SpecDraw, *)
(* SpecMaterials, SpecApp) over the shared variables; the variables of the *)
(* other parts stay at their initial value.                                *)
(***************************************************************************)
EXTENDS Integers, Sequences, FiniteSets, TLC

VARIABLES
    \* ---- registry (VulkanResourceList<T>) ----
    kind,          \* which registry class this instance is
    resources,     \* std::unordered_map<std::string, T> resources
    nextHandle,    \* the next handle value the driver / loader hands out
    created,       \* handles created by add calls on this registry
    released,      \* handle value -> number of release calls issued for it
    alive,         \* FALSE once the process has aborted
    destroyed,     \* TRUE once the registry's destructor has run
    lastOp,        \* the last registry call and what it returned
    reference,     \* reference finite map: name -> handle of the last successful add
    overwritten,   \* handles that a later add under the same name replaced
    \* ---- scene (Scene::loadMeshes, command buffer recording) ----
    aScene,        \* the imported model: sequence of meshes
    scenePc,       \* position of the scene load / recording
    meshes,        \* std::vector<SceneMesh> meshes
    gVertices,     \* running global vertex list
    gIndices,      \* running global index list
    gIndexBase,    \* running index offset
    vertexBases,   \* per mesh: gVertices.size() when its iteration began
    shadowDraws,   \* per light: the vkCmdDrawIndexed calls recorded for it
    deferredDraws, \* the scene-mesh vkCmdDrawIndexed calls of the geometry pass
    descriptorPool,\* the capacities the scene's descriptor pool was created with
    descriptorSets,\* per mesh: meshes[i].descriptorSet and what was written to it
    shadowPush,    \* per light: the value recorded by vkCmdPushConstants
    deferredCmds,  \* the bind and draw commands recorded for the geometry pass
    \* ---- frame submission (VulkanExample::draw) ----
    drawPc,        \* position of the CPU thread inside draw()
    frame,         \* number of frames completed
    submitInfo,    \* the VkSubmitInfo member reused for every submission
    submissions,   \* this frame's vkQueueSubmit calls, in submission order
    status,        \* per submission of this frame: "pending", "running", "done"
    signaled,      \* the semaphores currently signaled
    acquirePending,\* the swapchain acquire has not signaled presentComplete yet
    presented,     \* "none", "queued", "done": the present request of this frame
    \* ---- material import (Scene::loadMaterials) ----
    matPc,         \* position inside loadMaterials
    aMaterials,    \* aScene->mMaterials, as far as the loop has read them
    materials,     \* std::vector<SceneMaterial> materials
    textures,      \* resources.textures->resources
    loads,         \* file name -> number of loader calls made for it
    nextTexture,   \* the next texture handle the loader hands out
    \* ---- application life cycle (prepare, Scene::load, render, toggles) ----
    appPc,         \* position of the CPU thread: inside prepare() or past it
    importResult,  \* "none", "ok", "failed": what Importer.ReadFile returned
    errorReported, \* the "Error parsing ..." message was printed
    loaded,        \* what Scene::load has created so far
    uploads,       \* the staging uploads of loadMeshes, in order
    prepared,      \* VulkanExampleBase::prepared
    debugDisplay,  \* bool debugDisplay
    drawCmdBuffers,\* per swapchain image: what buildCommandBuffers recorded
    builds,        \* how often each pass's command buffers were recorded
    toggles,       \* how often each toggle entry point was called
    framesSubmitted, \* frames that draw() has submitted
    \* ---- re-recording of command buffers (toggles against the queue) ----
    rbPc,          \* position of the CPU thread: a build call of prepare(),
                   \* the render loop, or inside a toggle
    pending,       \* the submissions the queue has not finished, oldest first
    deferredCmd,   \* VkCommandBuffer deferredCmdBuffer (0 is VK_NULL_HANDLE)
    deferredSem,   \* VkSemaphore deferredSemaphore (0 is VK_NULL_HANDLE)
    liveSemaphores,\* deferred semaphores created and not destroyed
    nextObject,    \* the next handle the driver hands out
    rerecords,     \* every re-recording or free of a command buffer so far
    passBegins,    \* the VkRenderPassBeginInfo of every vkCmdBeginRenderPass
    rbFrames,      \* frames submitted by draw()
    rbToggles,     \* toggle key presses handled
    \* ---- the call trace of prepare() ----
    prepPc,        \* the step of prepare() being executed and the next call of it
    entries,       \* per registry: the names an add call stored
    defaults,      \* per registry: the names operator[] inserted an empty entry for
    lookups,       \* every get / getPtr call made so far and what it found
    products,      \* the products of the steps of prepare() completed so far
    uses,          \* every use of a product by a step, and whether it existed
    prepScene,     \* what loadScene imported: the outcome and the material count
    \* ---- getMemTypeIndex ----
    memPc,         \* "call" before the call, "returned" after it
    memoryTypes,   \* deviceMemProps.memoryTypes[i].propertyFlags, i < memoryTypeCount
    memTypeBits,   \* the typeBits argument
    memProperties, \* the properties argument
    memTypeIndex,  \* the value returned
    \* ---- lifetime of device objects (prepare, Scene::load, destructors) ----
    lifePc,        \* position of the CPU thread in the creation / teardown code
    objects,       \* every device object created so far
    held,          \* member variable -> the object whose handle it holds
    destroys,      \* per created object: the number of destroy / free calls
    lifeMeshes,    \* the number of meshes of the imported model
    \* ---- lights and their uniform buffers ----
    lightPc,       \* position of the CPU thread: setup, render loop, inside render()
    lights,        \* uboFragmentLights.lights
    attachLight,   \* bool attachLight
    cameraPosition,\* camera.position
    depthMVP,      \* uboShadowmapVS.depthMVP
    sceneLightsBuffer, \* the content of uniformBuffers.sceneLights
    shadowmapBuffer,   \* the content of uniformBuffers.shadowmap
    lightFrames        \* frames rendered

registryVars == << kind, resources, nextHandle, created, released, alive,
                   destroyed, lastOp, reference, overwritten >>
sceneVars    == << aScene, scenePc, meshes, gVertices, gIndices, gIndexBase,
                   vertexBases, shadowDraws, deferredDraws, descriptorPool,
                   descriptorSets, shadowPush, deferredCmds >>
drawVars     == << drawPc, frame, submitInfo, submissions, status, signaled,
                   acquirePending, presented >>
materialVars == << matPc, aMaterials, materials, textures, loads, nextTexture >>
appVars      == << appPc, importResult, errorReported, loaded, uploads, prepared,
                   debugDisplay, drawCmdBuffers, builds, toggles,
                   framesSubmitted >>
rebuildVars  == << rbPc, pending, deferredCmd, deferredSem, liveSemaphores,
                   nextObject, rerecords, passBegins, rbFrames, rbToggles >>
prepareVars  == << prepPc, entries, defaults, lookups, products, uses, prepScene >>
memoryVars   == << memPc, memoryTypes, memTypeBits, memProperties, memTypeIndex >>
lifetimeVars == << lifePc, objects, held, destroys, lifeMeshes >>
lightVars    == << lightPc, lights, attachLight, cameraPosition, depthMVP,
                   sceneLightsBuffer, shadowmapBuffer, lightFrames >>
vars         == << registryVars, sceneVars, drawVars, materialVars, appVars,
                   rebuildVars, prepareVars, memoryVars, lifetimeVars,
                   lightVars >>

\* #define NUM_LIGHTS 3
NUM_LIGHTS == 3

(***************************************************************************)
(* Bounds of the model.                                                    *)
(***************************************************************************)
MaxAdds   == 3   \* add calls per registry
MaxMeshes == 2   \* meshes of the imported model
MaxVerts  == 4   \* vertices per imported mesh
MaxFaces  == 2   \* triangles per imported mesh
MaxFrames == 3   \* frames drawn
MaxMaterials == 2 \* materials of the imported model
MaxToggles == 2   \* toggle key presses
MaxImages == 2    \* swapchain images (drawCmdBuffers.size())
MaxMemTypes == 3  \* memory types the device reports (memoryTypeCount)

(***************************************************************************)
(* Part 1: the resource registries.                                        *)
(***************************************************************************)
NameSet == {"a", "b"}

RegistryKinds == {"pipelineLayout", "pipeline", "descriptorSetLayout",
                  "descriptorSet", "texture"}

\* VK_NULL_HANDLE, and the value-initialised T() that operator[] inserts
NullHandle == 0

HandleValues == 0 .. MaxAdds

EmptyMap == [n \in {} |-> NullHandle]

\* resources[name] = value
Store(res, name, h) ==
    [m \in (DOMAIN res) \cup {name} |-> IF m = name THEN h ELSE res[m]]

\* resources.find(name) != resources.end()
present(res, name) == name \in DOMAIN res

\* std::unordered_map::operator[] : inserts a value-initialised T when the
\* key is absent, then yields the mapped value
Index(res, name) ==
    IF name \in DOMAIN res THEN res ELSE Store(res, name, NullHandle)

\* VK_CHECK_RESULT(f) around a creation call that failed: the process
\* aborts with a diagnostic and nothing after the macro runs
VkCheckResultAborts(ok) == ~ok

\* textureLoader->loadTexture / loadTextureArray / loadCubemap on a texture
\* that cannot be loaded: fatal, the call does not return
TextureLoadAborts(ok) == ~ok

\* whether the creation call of an add of this kind of registry ends the
\* process: the Vulkan object registries wrap it in VK_CHECK_RESULT, the
\* texture registry calls the loader
CreationAborts(k, ok) ==
    IF k = "texture" THEN TextureLoadAborts(ok) ELSE VkCheckResultAborts(ok)

\* add / addGraphicsPipeline / addTexture2D ...: the creation call, then
\* resources[name] = handle
AddStoreMutant(k, res, name, h, ok) == Store(res, name, h)
AddStore(k, res, name, h, ok) ==
    IF CreationAborts(k, ok) THEN res ELSE Store(res, name, h)

\* the destructors: one release call for every pair of the map
DtorReleasesMutant(res, made) ==
    [h \in HandleValues |->
        IF h \in made THEN 1 ELSE Cardinality({n \in DOMAIN res : res[n] = h})]
DtorReleases(res, made) ==
    [h \in HandleValues |-> Cardinality({n \in DOMAIN res : res[n] = h})]

NoOp == [op |-> "none", name |-> "", ok |-> TRUE, result |-> NullHandle]

RegistryInit ==
    /\ kind \in RegistryKinds
    /\ resources = EmptyMap
    /\ nextHandle = 1
    /\ created = {}
    /\ released = [h \in HandleValues |-> 0]
    /\ alive = TRUE
    /\ destroyed = FALSE
    /\ lastOp = NoOp
    /\ reference = EmptyMap
    /\ overwritten = {}

RegistryIdle ==
    /\ kind = "pipeline"
    /\ resources = EmptyMap
    /\ nextHandle = 1
    /\ created = {}
    /\ released = [h \in HandleValues |-> 0]
    /\ alive = TRUE
    /\ destroyed = FALSE
    /\ lastOp = NoOp
    /\ reference = EmptyMap
    /\ overwritten = {}

\* T add(name, createInfo): creation succeeded
AddOk(name) ==
    /\ alive /\ ~destroyed
    /\ nextHandle <= MaxAdds
    /\ resources' = AddStore(kind, resources, name, nextHandle, TRUE)
    /\ created' = created \cup {nextHandle}
    /\ nextHandle' = nextHandle + 1
    /\ overwritten' = IF name \in DOMAIN reference
                      THEN overwritten \cup {resources[name]}
                      ELSE overwritten
    /\ reference' = Store(reference, name, nextHandle)
    /\ lastOp' = [op |-> "add", name |-> name, ok |-> TRUE, result |-> nextHandle]
    /\ UNCHANGED << kind, released, alive, destroyed >>
    /\ UNCHANGED << sceneVars, drawVars, materialVars, appVars,
                    rebuildVars, prepareVars, memoryVars, lifetimeVars,
                    lightVars >>

\* T add(name, createInfo): the creation / load call failed
AddFail(name) ==
    /\ alive /\ ~destroyed
    /\ nextHandle <= MaxAdds
    /\ resources' = AddStore(kind, resources, name, nextHandle, FALSE)
    /\ alive' = ~CreationAborts(kind, FALSE)
    /\ lastOp' = [op |-> "add", name |-> name, ok |-> FALSE, result |-> NullHandle]
    /\ UNCHANGED << kind, nextHandle, created, released, destroyed, reference,
                    overwritten >>
    /\ UNCHANGED << sceneVars, drawVars, materialVars, appVars,
                    rebuildVars, prepareVars, memoryVars, lifetimeVars,
                    lightVars >>

\* const T get(name) { return resources[name]; }
Get(name) ==
    /\ alive /\ ~destroyed
    /\ resources' = Index(resources, name)
    /\ lastOp' = [op |-> "get", name |-> name, ok |-> TRUE,
                  result |-> Index(resources, name)[name]]
    /\ UNCHANGED << kind, nextHandle, created, released, alive, destroyed,
                    reference, overwritten >>
    /\ UNCHANGED << sceneVars, drawVars, materialVars, appVars,
                    rebuildVars, prepareVars, memoryVars, lifetimeVars,
                    lightVars >>

\* T *getPtr(name) { return &resources[name]; }
GetPtr(name) ==
    /\ alive /\ ~destroyed
    /\ resources' = Index(resources, name)
    /\ lastOp' = [op |-> "getPtr", name |-> name, ok |-> TRUE,
                  result |-> Index(resources, name)[name]]
    /\ UNCHANGED << kind, nextHandle, created, released, alive, destroyed,
                    reference, overwritten >>
    /\ UNCHANGED << sceneVars, drawVars, materialVars, appVars,
                    rebuildVars, prepareVars, memoryVars, lifetimeVars,
                    lightVars >>

\* bool present(name)
Present(name) ==
    /\ alive /\ ~destroyed
    /\ lastOp' = [op |-> "present", name |-> name, ok |-> TRUE,
                  result |-> IF present(resources, name) THEN 1 ELSE 0]
    /\ UNCHANGED << kind, resources, nextHandle, created, released, alive,
                    destroyed, reference, overwritten >>
    /\ UNCHANGED << sceneVars, drawVars, materialVars, appVars,
                    rebuildVars, prepareVars, memoryVars, lifetimeVars,
                    lightVars >>

\* ~PipelineLayoutList() etc.
Destroy ==
    /\ alive /\ ~destroyed
    /\ released' = DtorReleases(resources, created)
    /\ destroyed' = TRUE
    /\ lastOp' = [op |-> "destroy", name |-> "", ok |-> TRUE, result |-> NullHandle]
    /\ UNCHANGED << kind, resources, nextHandle, created, alive, reference,
                    overwritten >>
    /\ UNCHANGED << sceneVars, drawVars, materialVars, appVars,
                    rebuildVars, prepareVars, memoryVars, lifetimeVars,
                    lightVars >>

(***************************************************************************)
(* Part 2: Scene::loadMeshes and the mesh draws recorded from its result.  *)
(***************************************************************************)
\* uint32_t arithmetic; the counts of the model stay far below 2^32, where
\* it is plain addition
U32(x) == x

\* aMesh->mFaces[f].mIndices[0..2] (f counted from 0): the imported model's
\* triangles run over the mesh's vertices as a strip, so that neighbouring
\* triangles share vertices; a face may name a vertex the mesh does not have
FaceIndices(f) == << f, f + 1, f + 2 >>

ImportedMeshes ==
    [mNumVertices : 0 .. MaxVerts, mNumFaces : 0 .. MaxFaces, hasAlpha : BOOLEAN]

ImportedScenes ==
    UNION { [1 .. n -> ImportedMeshes] : n \in 0 .. MaxMeshes }

\* the three local indices of every face, in face order
RECURSIVE LocalIndices(_)
LocalIndices(nFaces) ==
    IF nFaces = 0 THEN << >>
    ELSE LocalIndices(nFaces - 1) \o FaceIndices(nFaces - 1)

\* the vertices of imported mesh k, copied in order (vertices are named by
\* the mesh and the position they come from)
MeshVertices(k, aMesh) == [j \in 1 .. aMesh.mNumVertices |-> << k, j - 1 >>]

\* gIndices.push_back(indices[..] + vertexBase)
OffsetIndexMutant(idx, vertexBase, indexBase) == U32(idx + indexBase)
OffsetIndex(idx, vertexBase, indexBase) == U32(idx + vertexBase)

\* the index loop of one mesh: every local index, offset, in order
OffsetIndices(aMesh, vertexBase, indexBase) ==
    [j \in 1 .. 3 * aMesh.mNumFaces |->
        OffsetIndex(LocalIndices(aMesh.mNumFaces)[j], vertexBase, indexBase)]

\* meshes[i].indexCount = aMesh->mNumFaces * 3
IndexCountMutant(aMesh) == aMesh.mNumFaces
IndexCount(aMesh) == U32(aMesh.mNumFaces * 3)

\* gIndexBase += 3, once per face
NextIndexBaseMutant(base, aMesh) == U32(base + aMesh.mNumFaces)
NextIndexBase(base, aMesh) == U32(base + 3 * aMesh.mNumFaces)

\* the descriptor pool before vkCreateDescriptorPool
NoPool == [maxSets |-> 0, uniformBuffers |-> 0, combinedImageSamplers |-> 0,
           created |-> FALSE]

\* a command buffer into which no push constant has been recorded
NoPush == -1

\* poolSizes and maxSets of the scene's descriptor pool, for n meshes
DescriptorPoolSizesMutant(n) ==
    [maxSets |-> n, uniformBuffers |-> n, combinedImageSamplers |-> n * 3,
     created |-> TRUE]
DescriptorPoolSizes(n) ==
    [maxSets |-> n, uniformBuffers |-> n, combinedImageSamplers |-> n * 4,
     created |-> TRUE]

\* the descriptor set of mesh i after vkAllocateDescriptorSets and
\* vkUpdateDescriptorSets: binding 0 the shared uniform buffer, bindings
\* 1..4 the diffuse, roughness, bump and metallic texture of the mesh's
\* material (named by the mesh whose material pointer is followed)
MeshDescriptorSet(i) ==
    [set |-> i,
     uniformBuffers |-> << "defaultUBO" >>,
     combinedImageSamplers |-> << << i, "diffuse" >>, << i, "roughness" >>,
                                  << i, "bump" >>, << i, "metallic" >> >>]

\* what the sets allocated so far have taken from the pool
RECURSIVE PoolUse(_)
PoolUse(sets) ==
    IF sets = << >>
    THEN [sets |-> 0, uniformBuffers |-> 0, combinedImageSamplers |-> 0]
    ELSE LET rest == PoolUse(Tail(sets))
         IN [sets |-> rest.sets + 1,
             uniformBuffers |-> rest.uniformBuffers + Len(Head(sets).uniformBuffers),
             combinedImageSamplers |->
                 rest.combinedImageSamplers + Len(Head(sets).combinedImageSamplers)]

\* whether the pool can still give out the set
PoolHasRoom(pool, sets, new) ==
    LET use == PoolUse(Append(sets, new))
    IN /\ use.sets <= pool.maxSets
       /\ use.uniformBuffers <= pool.uniformBuffers
       /\ use.combinedImageSamplers <= pool.combinedImageSamplers

\* a buffer created for count elements has size count * sizeof(element);
\* a size of 0 is not a valid VkBufferCreateInfo::size, and what
\* vkCreateBuffer and the calls that follow it do then is not defined
ZeroSized(count) == count = 0

SceneInit ==
    /\ aScene \in ImportedScenes
    /\ scenePc = "loadMeshes"
    /\ meshes = << >>
    /\ gVertices = << >>
    /\ gIndices = << >>
    /\ gIndexBase = 0
    /\ vertexBases = << >>
    /\ shadowDraws = [l \in 0 .. NUM_LIGHTS - 1 |-> << >>]
    /\ deferredDraws = << >>
    /\ descriptorPool = NoPool
    /\ descriptorSets = << >>
    /\ shadowPush = [l \in 0 .. NUM_LIGHTS - 1 |-> NoPush]
    /\ deferredCmds = << >>

SceneIdle ==
    /\ aScene = << >>
    /\ scenePc = "idle"
    /\ meshes = << >>
    /\ gVertices = << >>
    /\ gIndices = << >>
    /\ gIndexBase = 0
    /\ vertexBases = << >>
    /\ shadowDraws = [l \in 0 .. NUM_LIGHTS - 1 |-> << >>]
    /\ deferredDraws = << >>
    /\ descriptorPool = NoPool
    /\ descriptorSets = << >>
    /\ shadowPush = [l \in 0 .. NUM_LIGHTS - 1 |-> NoPush]
    /\ deferredCmds = << >>

\* one iteration of the mesh loop of Scene::loadMeshes
LoadMesh ==
    /\ scenePc = "loadMeshes"
    /\ Len(meshes) < Len(aScene)
    /\ LET k == Len(meshes) + 1
           aMesh == aScene[k]
           vertexBase == U32(Len(gVertices))
       IN /\ meshes' = Append(meshes,
                 [indexBase |-> gIndexBase,
                  indexCount |-> IndexCount(aMesh),
                  hasAlpha |-> aMesh.hasAlpha])
          /\ vertexBases' = Append(vertexBases, vertexBase)
          /\ gVertices' = gVertices \o MeshVertices(k, aMesh)
          /\ gIndices' = gIndices \o OffsetIndices(aMesh, vertexBase, gIndexBase)
          /\ gIndexBase' = NextIndexBase(gIndexBase, aMesh)
    /\ UNCHANGED << aScene, scenePc, shadowDraws, deferredDraws, descriptorPool,
                    descriptorSets, shadowPush, deferredCmds >>
    /\ UNCHANGED << registryVars, drawVars, materialVars, appVars,
                    rebuildVars, prepareVars, memoryVars, lifetimeVars,
                    lightVars >>

\* one of the buffers the loop iteration just modelled, or the global
\* buffers after the loop, is created with size 0: the creation may fail, and
\* VK_CHECK_RESULT then ends the process
CreateBufferFails ==
    /\ scenePc = "loadMeshes"
    /\ \/ /\ Len(meshes) > 0
          /\ \/ ZeroSized(aScene[Len(meshes)].mNumVertices)
             \/ ZeroSized(meshes[Len(meshes)].indexCount)
       \/ /\ Len(meshes) = Len(aScene)
          /\ \/ ZeroSized(Len(gVertices))
             \/ ZeroSized(Len(gIndices))
    /\ scenePc' = "aborted"
    /\ UNCHANGED << aScene, meshes, gVertices, gIndices, gIndexBase,
                    vertexBases, shadowDraws, deferredDraws, descriptorPool,
                    descriptorSets, shadowPush, deferredCmds >>
    /\ UNCHANGED << registryVars, drawVars, materialVars, appVars,
                    rebuildVars, prepareVars, memoryVars, lifetimeVars,
                    lightVars >>

\* the mesh loop is over: the global buffers are uploaded, the descriptor
\* pool, the shared set layout and the pipeline layout are created
LoadMeshesDone ==
    /\ scenePc = "loadMeshes"
    /\ Len(meshes) = Len(aScene)
    /\ descriptorPool' = DescriptorPoolSizes(Len(meshes))
    /\ scenePc' = "descriptorSets"
    /\ UNCHANGED << aScene, meshes, gVertices, gIndices, gIndexBase,
                    vertexBases, shadowDraws, deferredDraws, descriptorSets,
                    shadowPush, deferredCmds >>
    /\ UNCHANGED << registryVars, drawVars, materialVars, appVars,
                    rebuildVars, prepareVars, memoryVars, lifetimeVars,
                    lightVars >>

\* one iteration of the descriptor set loop: VK_CHECK_RESULT(
\* vkAllocateDescriptorSets), then the five writes
AllocateDescriptorSet ==
    /\ scenePc = "descriptorSets"
    /\ Len(descriptorSets) < Len(meshes)
    /\ LET i == Len(descriptorSets) + 1
       IN IF PoolHasRoom(descriptorPool, descriptorSets, MeshDescriptorSet(i))
          THEN /\ descriptorSets' = Append(descriptorSets, MeshDescriptorSet(i))
               /\ UNCHANGED scenePc
          ELSE /\ scenePc' = "aborted"
               /\ UNCHANGED descriptorSets
    /\ UNCHANGED << aScene, meshes, gVertices, gIndices, gIndexBase,
                    vertexBases, shadowDraws, deferredDraws, descriptorPool,
                    shadowPush, deferredCmds >>
    /\ UNCHANGED << registryVars, drawVars, materialVars, appVars,
                    rebuildVars, prepareVars, memoryVars, lifetimeVars,
                    lightVars >>

\* the descriptor set loop is over: loadMeshes returns
LoadMeshesReturn ==
    /\ scenePc = "descriptorSets"
    /\ Len(descriptorSets) = Len(meshes)
    /\ scenePc' = "loaded"
    /\ UNCHANGED << aScene, meshes, gVertices, gIndices, gIndexBase,
                    vertexBases, shadowDraws, deferredDraws, descriptorPool,
                    descriptorSets, shadowPush, deferredCmds >>
    /\ UNCHANGED << registryVars, drawVars, materialVars, appVars,
                    rebuildVars, prepareVars, memoryVars, lifetimeVars,
                    lightVars >>

\* vkCmdDrawIndexed(cmd, indexCount, instanceCount, firstIndex, vertexOffset,
\* firstInstance) as the recording functions call it for scene mesh k:
\* vkCmdDrawIndexed(cmd, mesh.indexCount, 1, 0, mesh.indexBase, 0)
MeshDraw(k) ==
    [mesh |-> k,
     indexCount |-> meshes[k].indexCount,
     instanceCount |-> 1,
     firstIndex |-> 0,
     vertexOffset |-> meshes[k].indexBase,
     firstInstance |-> 0]

\* the draws of the meshes of 1..n whose material has hasAlpha = alpha, in
\* mesh order (the loops "for (auto mesh : scene->meshes)" with their test)
RECURSIVE DrawsOf(_, _)
DrawsOf(n, alpha) ==
    IF n = 0 THEN << >>
    ELSE IF meshes[n].hasAlpha = alpha
         THEN Append(DrawsOf(n - 1, alpha), MeshDraw(n))
         ELSE DrawsOf(n - 1, alpha)

\* vkCmdPushConstants(cmd, pipelineLayout, VERTEX, 0, sizeof(int), &i)
ShadowPushConstantMutant(i) == i + 1
ShadowPushConstant(i) == i

\* VulkanExample::buildShadowmapCommandBuffer: per light, the push constant
\* and the opaque meshes
BuildShadowmapCommandBuffer ==
    /\ scenePc = "loaded"
    /\ shadowDraws' = [l \in 0 .. NUM_LIGHTS - 1 |-> DrawsOf(Len(meshes), FALSE)]
    /\ shadowPush' = [l \in 0 .. NUM_LIGHTS - 1 |-> ShadowPushConstant(l)]
    /\ scenePc' = "shadowRecorded"
    /\ UNCHANGED << aScene, meshes, gVertices, gIndices, gIndexBase,
                    vertexBases, deferredDraws, descriptorPool, descriptorSets,
                    deferredCmds >>
    /\ UNCHANGED << registryVars, drawVars, materialVars, appVars,
                    rebuildVars, prepareVars, memoryVars, lifetimeVars,
                    lightVars >>

\* a command of the geometry pass: what is bound or drawn, for which scene
\* mesh (0: none), and the descriptor set handle a bind passes (0: not a
\* scene mesh's set)
Command(cmd, name, mesh, set) ==
    [cmd |-> cmd, name |-> name, mesh |-> mesh, set |-> set]

\* for the meshes of 1..n whose material has hasAlpha = alpha, in mesh
\* order: vkCmdBindDescriptorSets(.., &mesh.descriptorSet, ..), then the draw
RECURSIVE MeshCommandsOf(_, _)
MeshCommandsOf(n, alpha) ==
    IF n = 0 THEN << >>
    ELSE IF meshes[n].hasAlpha = alpha
         THEN MeshCommandsOf(n - 1, alpha) \o
              << Command("bindDescriptorSets", "mesh.descriptorSet", n,
                         descriptorSets[n].set),
                 Command("drawIndexed", "mesh", n, 0) >>
         ELSE MeshCommandsOf(n - 1, alpha)

\* the skysphere, then the scene meshes with "scene.solid", then those with
\* "scene.blend"
DeferredCommandsMutant ==
    << Command("bindPipeline", "skysphere", 0, 0),
       Command("bindDescriptorSets", "skysphere", 0, 0),
       Command("drawIndexed", "skysphere", 0, 0),
       Command("bindPipeline", "scene.solid", 0, 0) >>
    \o MeshCommandsOf(Len(meshes), TRUE)
    \o << Command("bindPipeline", "scene.blend", 0, 0) >>
    \o MeshCommandsOf(Len(meshes), FALSE)
DeferredCommands ==
    << Command("bindPipeline", "skysphere", 0, 0),
       Command("bindDescriptorSets", "skysphere", 0, 0),
       Command("drawIndexed", "skysphere", 0, 0),
       Command("bindPipeline", "scene.solid", 0, 0) >>
    \o MeshCommandsOf(Len(meshes), FALSE)
    \o << Command("bindPipeline", "scene.blend", 0, 0) >>
    \o MeshCommandsOf(Len(meshes), TRUE)

\* VulkanExample::buildDeferredCommandBuffer: the sky, the opaque meshes,
\* then the alpha-tested ones
BuildDeferredCommandBuffer ==
    /\ scenePc = "shadowRecorded"
    /\ deferredDraws' = DrawsOf(Len(meshes), FALSE) \o DrawsOf(Len(meshes), TRUE)
    /\ deferredCmds' = DeferredCommands
    /\ scenePc' = "recorded"
    /\ UNCHANGED << aScene, meshes, gVertices, gIndices, gIndexBase,
                    vertexBases, shadowDraws, descriptorPool, descriptorSets,
                    shadowPush >>
    /\ UNCHANGED << registryVars, drawVars, materialVars, appVars,
                    rebuildVars, prepareVars, memoryVars, lifetimeVars,
                    lightVars >>

\* what the input assembler does with a recorded draw: the positions of the
\* index buffer it reads, and the vertex each position selects
IndexPositions(d) == { d.firstIndex + j : j \in 0 .. d.indexCount - 1 }
FetchedVertices(d) ==
    { gIndices[p + 1] + d.vertexOffset : p \in IndexPositions(d) \cap (0 .. Len(gIndices) - 1) }


(***************************************************************************)
(* Part 3: VulkanExample::draw and the queue that executes its work.       *)
(***************************************************************************)
Sem(name, idx) == [sem |-> name, idx |-> idx]
presentComplete == Sem("presentComplete", 0)     \* semaphores.presentComplete
renderComplete == Sem("renderComplete", 0)       \* semaphores.renderComplete
deferredSemaphore == Sem("deferredSemaphore", 0)
shadowSemaphore(i) == Sem("shadowmapPass", i)    \* shadowmapPass[i].semaphore

Cmd(name, idx) == [buf |-> name, idx |-> idx]
shadowCommandBuffer(i) == Cmd("shadowmapPass", i) \* shadowmapPass[i].commandBuffer
deferredCmdBuffer == Cmd("deferredCmdBuffer", 0)
drawCmdBuffer == Cmd("drawCmdBuffers", 0)         \* drawCmdBuffers[currentBuffer]

\* the submitInfo member as the base class prepares it: one wait semaphore,
\* one signal semaphore
BaseSubmitInfo ==
    [waitSemaphoreCount |-> 1,
     pWaitSemaphores |-> presentComplete,
     signalSemaphoreCount |-> 1,
     pSignalSemaphores |-> renderComplete,
     commandBufferCount |-> 0,
     pCommandBuffers |-> drawCmdBuffer]

\* submitInfo.pWaitSemaphores = i == 0 ? &semaphores.presentComplete
\*                                     : &shadowmapPass[i - 1].semaphore
ShadowWaitMutant(i) == presentComplete
ShadowWait(i) == IF i = 0 THEN presentComplete ELSE shadowSemaphore(i - 1)

\* submitInfo.pWaitSemaphores = &shadowmapPass[NUM_LIGHTS - 1].semaphore
DeferredWait == shadowSemaphore(NUM_LIGHTS - 1)

\* submitInfo.pWaitSemaphores = &deferredSemaphore (composition)
CompositionWaitMutant == shadowSemaphore(NUM_LIGHTS - 1)
CompositionWait == deferredSemaphore

\* vkQueueSubmit(queue, 1, &submitInfo, VK_NULL_HANDLE): what the queue gets
Submission(info) ==
    [cmd |-> info.pCommandBuffers,
     wait |-> IF info.waitSemaphoreCount = 1 THEN {info.pWaitSemaphores} ELSE {},
     signal |-> IF info.signalSemaphoreCount = 1 THEN {info.pSignalSemaphores} ELSE {}]

At(where, i) == [at |-> where, i |-> i]

DrawInit ==
    /\ drawPc = At("idle", 0)
    /\ frame = 0
    /\ submitInfo = BaseSubmitInfo
    /\ submissions = << >>
    /\ status = << >>
    /\ signaled = {}
    /\ acquirePending = FALSE
    /\ presented = "none"

DrawIdle == DrawInit

\* VulkanExampleBase::prepareFrame(): acquires the next swapchain image; the
\* presentation engine signals presentComplete when the image is available
PrepareFrame ==
    /\ drawPc = At("idle", 0)
    /\ frame < MaxFrames
    /\ acquirePending' = TRUE
    /\ drawPc' = At("shadow", 0)
    /\ UNCHANGED << frame, submitInfo, submissions, status, signaled, presented >>
    /\ UNCHANGED << registryVars, sceneVars, materialVars, appVars,
                    rebuildVars, prepareVars, memoryVars, lifetimeVars,
                    lightVars >>

\* one iteration of the shadow pass loop of draw()
SubmitShadow ==
    /\ drawPc.at = "shadow"
    /\ LET i == drawPc.i
           info == [submitInfo EXCEPT
                       !.pWaitSemaphores = ShadowWait(i),
                       !.pSignalSemaphores = shadowSemaphore(i),
                       !.commandBufferCount = 1,
                       !.pCommandBuffers = shadowCommandBuffer(i)]
       IN /\ submitInfo' = info
          /\ submissions' = Append(submissions, Submission(info))
          /\ status' = Append(status, "pending")
          /\ drawPc' = IF i + 1 < NUM_LIGHTS THEN At("shadow", i + 1)
                       ELSE At("deferred", 0)
    /\ UNCHANGED << frame, signaled, acquirePending, presented >>
    /\ UNCHANGED << registryVars, sceneVars, materialVars, appVars,
                    rebuildVars, prepareVars, memoryVars, lifetimeVars,
                    lightVars >>

\* the geometry pass submission of draw()
SubmitDeferred ==
    /\ drawPc.at = "deferred"
    /\ LET info == [submitInfo EXCEPT
                       !.pSignalSemaphores = deferredSemaphore,
                       !.pWaitSemaphores = DeferredWait,
                       !.pCommandBuffers = deferredCmdBuffer]
       IN /\ submitInfo' = info
          /\ submissions' = Append(submissions, Submission(info))
          /\ status' = Append(status, "pending")
    /\ drawPc' = At("composition", 0)
    /\ UNCHANGED << frame, signaled, acquirePending, presented >>
    /\ UNCHANGED << registryVars, sceneVars, materialVars, appVars,
                    rebuildVars, prepareVars, memoryVars, lifetimeVars,
                    lightVars >>

\* the composition pass submission of draw()
SubmitComposition ==
    /\ drawPc.at = "composition"
    /\ LET info == [submitInfo EXCEPT
                       !.pWaitSemaphores = CompositionWait,
                       !.pSignalSemaphores = renderComplete,
                       !.pCommandBuffers = drawCmdBuffer]
       IN /\ submitInfo' = info
          /\ submissions' = Append(submissions, Submission(info))
          /\ status' = Append(status, "pending")
    /\ drawPc' = At("submitFrame", 0)
    /\ UNCHANGED << frame, signaled, acquirePending, presented >>
    /\ UNCHANGED << registryVars, sceneVars, materialVars, appVars,
                    rebuildVars, prepareVars, memoryVars, lifetimeVars,
                    lightVars >>

\* VulkanExampleBase::submitFrame(): queues the present request, which waits
\* on renderComplete
SubmitFrame ==
    /\ drawPc.at = "submitFrame"
    /\ presented' = "queued"
    /\ drawPc' = At("presentWait", 0)
    /\ UNCHANGED << frame, submitInfo, submissions, status, signaled, acquirePending >>
    /\ UNCHANGED << registryVars, sceneVars, materialVars, appVars,
                    rebuildVars, prepareVars, memoryVars, lifetimeVars,
                    lightVars >>

\* the final present wait: the CPU thread goes on when the queue is idle
PresentWait ==
    /\ drawPc.at = "presentWait"
    /\ presented = "done"
    /\ \A s \in 1 .. Len(status) : status[s] = "done"
    /\ frame' = frame + 1
    /\ submissions' = << >>
    /\ status' = << >>
    /\ presented' = "none"
    /\ drawPc' = At("idle", 0)
    /\ UNCHANGED << submitInfo, signaled, acquirePending >>
    /\ UNCHANGED << registryVars, sceneVars, materialVars, appVars,
                    rebuildVars, prepareVars, memoryVars, lifetimeVars,
                    lightVars >>

\* the presentation engine signals presentComplete
AcquireSignal ==
    /\ acquirePending
    /\ acquirePending' = FALSE
    /\ signaled' = signaled \cup {presentComplete}
    /\ UNCHANGED << drawPc, frame, submitInfo, submissions, status, presented >>
    /\ UNCHANGED << registryVars, sceneVars, materialVars, appVars,
                    rebuildVars, prepareVars, memoryVars, lifetimeVars,
                    lightVars >>

\* the queue starts a submitted batch once its wait semaphores are signaled;
\* the wait unsignals them
GpuStart(s) ==
    /\ status[s] = "pending"
    /\ submissions[s].wait \subseteq signaled
    /\ signaled' = signaled \ submissions[s].wait
    /\ status' = [status EXCEPT ![s] = "running"]
    /\ UNCHANGED << drawPc, frame, submitInfo, submissions, acquirePending, presented >>
    /\ UNCHANGED << registryVars, sceneVars, materialVars, appVars,
                    rebuildVars, prepareVars, memoryVars, lifetimeVars,
                    lightVars >>

\* a batch completes and signals its semaphores
GpuFinish(s) ==
    /\ status[s] = "running"
    /\ status' = [status EXCEPT ![s] = "done"]
    /\ signaled' = signaled \cup submissions[s].signal
    /\ UNCHANGED << drawPc, frame, submitInfo, submissions, acquirePending, presented >>
    /\ UNCHANGED << registryVars, sceneVars, materialVars, appVars,
                    rebuildVars, prepareVars, memoryVars, lifetimeVars,
                    lightVars >>

\* the presentation engine presents once renderComplete is signaled
GpuPresent ==
    /\ presented = "queued"
    /\ renderComplete \in signaled
    /\ signaled' = signaled \ {renderComplete}
    /\ presented' = "done"
    /\ UNCHANGED << drawPc, frame, submitInfo, submissions, status, acquirePending >>
    /\ UNCHANGED << registryVars, sceneVars, materialVars, appVars,
                    rebuildVars, prepareVars, memoryVars, lifetimeVars,
                    lightVars >>

(***************************************************************************)
(* Part 4: Scene::loadMaterials.  A std::string is the sequence of its     *)
(* characters; a run of characters without a separator is one element.     *)
(***************************************************************************)
\* GetTextureCount(type) == 0: the material has no texture of that type
NoTexture == << >>

\* the texture file names the imported materials use
PathBackslash == << "textures", "\\", "lion.dds" >>
PathSlash == << "textures", "/", "lion.dds" >>
PathOther == << "vase.dds" >>

ImportedMaterials ==
    [diffuse : {NoTexture, PathBackslash, PathOther},     \* aiTextureType_DIFFUSE
     height : {NoTexture, PathSlash},                     \* aiTextureType_HEIGHT
     ambient : {NoTexture, PathSlash},                    \* aiTextureType_AMBIENT
     specular : {NoTexture, PathOther},                   \* aiTextureType_SPECULAR
     opacity : BOOLEAN]                                   \* aiTextureType_OPACITY

\* the names of the dummy textures, per channel of SceneMaterial
DummyName ==
    [diffuse |-> << "dummy.diffuse" >>,
     roughness |-> << "dummy.specular" >>,
     bump |-> << "dummy.bump" >>,
     metallic |-> << "dialectric.metallic" >>]

\* the files the dummy textures are loaded from
DummyFile ==
    [diffuse |-> << "assetPath", "sponza/dummy.dds" >>,
     roughness |-> << "assetPath", "sponza/dummy_specular.dds" >>,
     bump |-> << "assetPath", "sponza/dummy_ddn.dds" >>,
     metallic |-> << "assetPath", "SponzaPBR/textures_pbr/Dielectric_metallic_TGA_BC2_1.DDS" >>]

Channels == {"diffuse", "roughness", "bump", "metallic"}

\* std::replace(fileName.begin(), fileName.end(), '\\', '/')
ReplaceBackslashMutant(fileName) == fileName
ReplaceBackslash(fileName) ==
    [j \in 1 .. Len(fileName) |-> IF fileName[j] = "\\" THEN "/" ELSE fileName[j]]

\* assetPath + fileName
AssetFile(fileName) == << "assetPath" >> \o fileName

\* one more loader call for this file
CountLoad(l, file) ==
    [f \in (DOMAIN l) \cup {file} |->
        IF f = file THEN (IF f \in DOMAIN l THEN l[f] ELSE 0) + 1 ELSE l[f]]

\* the texture registry, the loader's call counts and next handle, and the
\* value the last registry call returned
TexState(tex, l, nxt, h) == [textures |-> tex, loads |-> l, next |-> nxt, handle |-> h]

\* resources.textures->addTexture2D(name, file, format): the loader call,
\* then resources[name] = texture; returns the texture
AddTexture2D(st, name, file) ==
    TexState(Store(st.textures, name, st.next), CountLoad(st.loads, file),
             st.next + 1, st.next)

\* resources.textures->get(name)
GetTexture(st, name) ==
    TexState(Index(st.textures, name), st.loads, st.next,
             Index(st.textures, name)[name])

\* if (!present(fileName)) x = addTexture2D(fileName, assetPath + fileName)
\* else x = get(fileName), after the backslashes of the name were replaced
ResolveTexture(st, texturefile) ==
    LET fileName == ReplaceBackslash(texturefile)
    IN IF ~present(st.textures, fileName)
       THEN AddTexture2D(st, fileName, AssetFile(fileName))
       ELSE GetTexture(st, fileName)

\* whether a channel's has-flag is set: the material has a texture for it
HasOwnMutant(texturefile) == TRUE
HasOwn(texturefile) == texturefile # NoTexture

MaterialInit ==
    /\ matPc = "loadMaterials"
    /\ aMaterials = << >>
    /\ materials = << >>
    /\ textures = [n \in {} |-> NullHandle]
    /\ loads = [f \in {} |-> 0]
    /\ nextTexture = 1

MaterialIdle ==
    /\ matPc = "idle"
    /\ aMaterials = << >>
    /\ materials = << >>
    /\ textures = [n \in {} |-> NullHandle]
    /\ loads = [f \in {} |-> 0]
    /\ nextTexture = 1

\* the four addTexture2D calls for the dummy textures at the start of
\* loadMaterials
AddDummyTextures ==
    /\ matPc = "loadMaterials"
    /\ LET s0 == TexState(textures, loads, nextTexture, NullHandle)
           s1 == AddTexture2D(s0, DummyName.diffuse, DummyFile.diffuse)
           s2 == AddTexture2D(s1, DummyName.roughness, DummyFile.roughness)
           s3 == AddTexture2D(s2, DummyName.bump, DummyFile.bump)
           s4 == AddTexture2D(s3, DummyName.metallic, DummyFile.metallic)
       IN /\ textures' = s4.textures
          /\ loads' = s4.loads
          /\ nextTexture' = s4.next
    /\ matPc' = "materials"
    /\ UNCHANGED << aMaterials, materials >>
    /\ UNCHANGED << registryVars, sceneVars, drawVars, appVars,
                    rebuildVars, prepareVars, memoryVars, lifetimeVars,
                    lightVars >>

\* one iteration of the material loop of loadMaterials, for the material the
\* importer delivers next
LoadMaterial(aMat) ==
    /\ matPc = "materials"
    /\ Len(materials) < MaxMaterials
    /\ LET s0 == TexState(textures, loads, nextTexture, NullHandle)
           \* Diffuse
           sDiffuse == IF HasOwn(aMat.diffuse)
                       THEN ResolveTexture(s0, aMat.diffuse)
                       ELSE GetTexture(s0, DummyName.diffuse)
           sRoughness0 == GetTexture(sDiffuse, DummyName.roughness)
           sMetallic0 == GetTexture(sRoughness0, DummyName.metallic)
           \* Bump
           sBump == IF HasOwn(aMat.height)
                    THEN ResolveTexture(sMetallic0, aMat.height)
                    ELSE GetTexture(sMetallic0, DummyName.bump)
           \* Reserved channels
           sRoughness == IF HasOwn(aMat.ambient)
                         THEN ResolveTexture(sBump, aMat.ambient)
                         ELSE [sBump EXCEPT !.handle = sRoughness0.handle]
           sMetallic == IF HasOwn(aMat.specular)
                        THEN ResolveTexture(sRoughness, aMat.specular)
                        ELSE [sRoughness EXCEPT !.handle = sMetallic0.handle]
       IN /\ materials' = Append(materials,
                 [diffuse |-> sDiffuse.handle,
                  roughness |-> sRoughness.handle,
                  metallic |-> sMetallic.handle,
                  bump |-> sBump.handle,
                  hasAlpha |-> aMat.opacity,
                  hasBump |-> HasOwn(aMat.height),
                  hasRoughness |-> HasOwn(aMat.ambient),
                  hasMetaliness |-> HasOwn(aMat.specular)])
          /\ textures' = sMetallic.textures
          /\ loads' = sMetallic.loads
          /\ nextTexture' = sMetallic.next
    /\ aMaterials' = Append(aMaterials, aMat)
    /\ UNCHANGED matPc
    /\ UNCHANGED << registryVars, sceneVars, drawVars, appVars,
                    rebuildVars, prepareVars, memoryVars, lifetimeVars,
                    lightVars >>

\* the material loop is over: i == materials.size()
LoadMaterialsDone ==
    /\ matPc = "materials"
    /\ matPc' = "done"
    /\ UNCHANGED << aMaterials, materials, textures, loads, nextTexture >>
    /\ UNCHANGED << registryVars, sceneVars, drawVars, appVars,
                    rebuildVars, prepareVars, memoryVars, lifetimeVars,
                    lightVars >>

(***************************************************************************)
(* Part 5: the life cycle of the application: VulkanExample::prepare from  *)
(* loadScene on, Scene::load with the staging uploads of loadMeshes,       *)
(* render and the toggle entry points.                                     *)
(***************************************************************************)
\* what Scene::load has created: nothing
NothingLoaded ==
    [materials |-> 0, meshes |-> 0, dummyTextures |-> 0, buffers |-> 0,
     descriptorPool |-> FALSE, layouts |-> 0, descriptorSets |-> 0]

\* if (aScene) { loadMaterials(); loadMeshes(copyCmd); }
ImportSucceededMutant(result) == TRUE
ImportSucceeded(result) == result = "ok"

\* loadMaterials and the resize at the start of loadMeshes, for a model of
\* m materials and n meshes
AfterLoadMaterials(m, n) ==
    [NothingLoaded EXCEPT !.materials = m, !.meshes = n, !.dummyTextures = 4]

\* one staging upload: the CPU thread's position in it, the state of the
\* staging buffers, and the copy submission on the queue
Upload(cpu, staging, gpu) == [cpu |-> cpu, staging |-> staging, gpu |-> gpu]

\* vkQueueWaitIdle(queue) returns when no submission is pending
QueueIdleMutant(ups) == TRUE
QueueIdle(ups) == \A u \in 1 .. Len(ups) : ups[u].gpu # "pending"

\* the uploads loadMeshes makes for n meshes: one per mesh, one for the
\* global buffers
UploadCount(n) == n + 1

\* buildCommandBuffers: every drawCmdBuffers[i] is recorded, with the debug
\* quad draw when debugDisplay is set
RecordCompositionMutant(debug) ==
    [i \in 1 .. MaxImages |-> [recorded |-> TRUE, debugDraw |-> FALSE]]
RecordComposition(debug) ==
    [i \in 1 .. MaxImages |-> [recorded |-> TRUE, debugDraw |-> debug]]

AppInit ==
    /\ appPc = "loadScene"
    /\ importResult = "none"
    /\ errorReported = FALSE
    /\ loaded = NothingLoaded
    /\ uploads = << >>
    /\ prepared = FALSE
    /\ debugDisplay = FALSE
    /\ drawCmdBuffers = [i \in 1 .. MaxImages |-> [recorded |-> FALSE, debugDraw |-> FALSE]]
    /\ builds = [shadow |-> 0, deferred |-> 0, composition |-> 0]
    /\ toggles = [debugDisplay |-> 0, ssao |-> 0]
    /\ framesSubmitted = 0

AppIdle ==
    /\ appPc = "idle"
    /\ importResult = "none"
    /\ errorReported = FALSE
    /\ loaded = NothingLoaded
    /\ uploads = << >>
    /\ prepared = FALSE
    /\ debugDisplay = FALSE
    /\ drawCmdBuffers = [i \in 1 .. MaxImages |-> [recorded |-> FALSE, debugDraw |-> FALSE]]
    /\ builds = [shadow |-> 0, deferred |-> 0, composition |-> 0]
    /\ toggles = [debugDisplay |-> 0, ssao |-> 0]
    /\ framesSubmitted = 0

\* loadScene -> Scene::load up to the mesh loop: the import, then either
\* loadMaterials and the start of loadMeshes, or the error message
SceneLoad(result, m, n) ==
    /\ appPc = "loadScene"
    /\ importResult' = result
    /\ IF ImportSucceeded(result)
       THEN /\ loaded' = AfterLoadMaterials(m, n)
            /\ appPc' = "upload"
            /\ UNCHANGED errorReported
       ELSE /\ errorReported' = TRUE
            /\ appPc' = "build"
            /\ UNCHANGED loaded
    /\ UNCHANGED << uploads, prepared, debugDisplay, drawCmdBuffers, builds,
                    toggles, framesSubmitted >>
    /\ UNCHANGED << registryVars, sceneVars, drawVars, materialVars,
                    rebuildVars, prepareVars, memoryVars, lifetimeVars,
                    lightVars >>

\* an upload starts: the staging and target buffers are created and filled,
\* vkBeginCommandBuffer(copyCmd)
BeginCopy ==
    /\ appPc = "upload"
    /\ Len(uploads) < UploadCount(loaded.meshes)
    /\ (uploads # << >>) => (uploads[Len(uploads)].cpu = "released")
    /\ uploads' = Append(uploads, Upload("recording", "alive", "none"))
    /\ loaded' = [loaded EXCEPT !.buffers = @ + 2]
    /\ UNCHANGED << appPc, importResult, errorReported, prepared, debugDisplay,
                    drawCmdBuffers, builds, toggles, framesSubmitted >>
    /\ UNCHANGED << registryVars, sceneVars, drawVars, materialVars,
                    rebuildVars, prepareVars, memoryVars, lifetimeVars,
                    lightVars >>

\* the two vkCmdCopyBuffer, vkEndCommandBuffer, vkQueueSubmit
SubmitCopy ==
    /\ appPc = "upload"
    /\ uploads # << >>
    /\ uploads[Len(uploads)].cpu = "recording"
    /\ uploads' = [uploads EXCEPT ![Len(uploads)] = Upload("submitted", "alive", "pending")]
    /\ UNCHANGED << appPc, importResult, errorReported, loaded, prepared,
                    debugDisplay, drawCmdBuffers, builds, toggles, framesSubmitted >>
    /\ UNCHANGED << registryVars, sceneVars, drawVars, materialVars,
                    rebuildVars, prepareVars, memoryVars, lifetimeVars,
                    lightVars >>

\* the queue executes a pending copy
GpuCopy(u) ==
    /\ uploads[u].gpu = "pending"
    /\ uploads' = [uploads EXCEPT ![u].gpu = "done"]
    /\ UNCHANGED << appPc, importResult, errorReported, loaded, prepared,
                    debugDisplay, drawCmdBuffers, builds, toggles, framesSubmitted >>
    /\ UNCHANGED << registryVars, sceneVars, drawVars, materialVars,
                    rebuildVars, prepareVars, memoryVars, lifetimeVars,
                    lightVars >>

\* VK_CHECK_RESULT(vkQueueWaitIdle(queue)) returns
QueueWaitIdle ==
    /\ appPc = "upload"
    /\ uploads # << >>
    /\ uploads[Len(uploads)].cpu = "submitted"
    /\ QueueIdle(uploads)
    /\ uploads' = [uploads EXCEPT ![Len(uploads)].cpu = "waited"]
    /\ UNCHANGED << appPc, importResult, errorReported, loaded, prepared,
                    debugDisplay, drawCmdBuffers, builds, toggles, framesSubmitted >>
    /\ UNCHANGED << registryVars, sceneVars, drawVars, materialVars,
                    rebuildVars, prepareVars, memoryVars, lifetimeVars,
                    lightVars >>

\* vkDestroyBuffer / vkFreeMemory of the staging buffers
ReleaseStaging ==
    /\ appPc = "upload"
    /\ uploads # << >>
    /\ uploads[Len(uploads)].cpu = "waited"
    /\ uploads' = [uploads EXCEPT ![Len(uploads)].cpu = "released",
                                  ![Len(uploads)].staging = "released"]
    /\ UNCHANGED << appPc, importResult, errorReported, loaded, prepared,
                    debugDisplay, drawCmdBuffers, builds, toggles, framesSubmitted >>
    /\ UNCHANGED << registryVars, sceneVars, drawVars, materialVars,
                    rebuildVars, prepareVars, memoryVars, lifetimeVars,
                    lightVars >>

\* the rest of loadMeshes after the last upload: descriptor pool, set layout,
\* pipeline layout, one descriptor set per mesh; load and loadScene return
SceneLoadReturn ==
    /\ appPc = "upload"
    /\ Len(uploads) = UploadCount(loaded.meshes)
    /\ uploads[Len(uploads)].cpu = "released"
    /\ loaded' = [loaded EXCEPT !.descriptorPool = TRUE, !.layouts = 2,
                                !.descriptorSets = loaded.meshes]
    /\ appPc' = "build"
    /\ UNCHANGED << importResult, errorReported, uploads, prepared, debugDisplay,
                    drawCmdBuffers, builds, toggles, framesSubmitted >>
    /\ UNCHANGED << registryVars, sceneVars, drawVars, materialVars,
                    rebuildVars, prepareVars, memoryVars, lifetimeVars,
                    lightVars >>

\* the end of prepare(): buildShadowmapCommandBuffer(); buildCommandBuffers();
\* buildDeferredCommandBuffer(); prepared = true
PrepareBuild ==
    /\ appPc = "build"
    /\ builds' = [shadow |-> builds.shadow + 1,
                  deferred |-> builds.deferred + 1,
                  composition |-> builds.composition + 1]
    /\ drawCmdBuffers' = RecordComposition(debugDisplay)
    /\ prepared' = TRUE
    /\ appPc' = "running"
    /\ UNCHANGED << importResult, errorReported, loaded, uploads, debugDisplay,
                    toggles, framesSubmitted >>
    /\ UNCHANGED << registryVars, sceneVars, drawVars, materialVars,
                    rebuildVars, prepareVars, memoryVars, lifetimeVars,
                    lightVars >>

\* render(): if (!prepared) return; draw(); ...
Render ==
    /\ framesSubmitted < MaxFrames
    /\ framesSubmitted' = IF prepared THEN framesSubmitted + 1 ELSE framesSubmitted
    /\ UNCHANGED << appPc, importResult, errorReported, loaded, uploads, prepared,
                    debugDisplay, drawCmdBuffers, builds, toggles >>
    /\ UNCHANGED << registryVars, sceneVars, drawVars, materialVars,
                    rebuildVars, prepareVars, memoryVars, lifetimeVars,
                    lightVars >>

\* toggleDebugDisplay(): debugDisplay = !debugDisplay; reBuildCommandBuffers()
ToggleDebugDisplay ==
    /\ appPc = "running"
    /\ toggles.debugDisplay + toggles.ssao < MaxToggles
    /\ debugDisplay' = ~debugDisplay
    /\ drawCmdBuffers' = RecordComposition(~debugDisplay)
    /\ builds' = [builds EXCEPT !.composition = @ + 1]
    /\ toggles' = [toggles EXCEPT !.debugDisplay = @ + 1]
    /\ UNCHANGED << appPc, importResult, errorReported, loaded, uploads, prepared,
                    framesSubmitted >>
    /\ UNCHANGED << registryVars, sceneVars, drawVars, materialVars,
                    rebuildVars, prepareVars, memoryVars, lifetimeVars,
                    lightVars >>

\* toggleSSAO(): reBuildCommandBuffers(); buildDeferredCommandBuffer(true)
ToggleSSAO ==
    /\ appPc = "running"
    /\ toggles.debugDisplay + toggles.ssao < MaxToggles
    /\ drawCmdBuffers' = RecordComposition(debugDisplay)
    /\ builds' = [builds EXCEPT !.composition = @ + 1, !.deferred = @ + 1]
    /\ toggles' = [toggles EXCEPT !.ssao = @ + 1]
    /\ UNCHANGED << appPc, importResult, errorReported, loaded, uploads, prepared,
                    debugDisplay, framesSubmitted >>
    /\ UNCHANGED << registryVars, sceneVars, drawVars, materialVars,
                    rebuildVars, prepareVars, memoryVars, lifetimeVars,
                    lightVars >>

(***************************************************************************)
(* Part 6: re-recording of command buffers.  The CPU thread records the    *)
(* three passes at the end of prepare(), then runs the render loop, in     *)
(* which draw() hands submissions to the queue and the F1 / F2 keys        *)
(* re-record command buffers; the queue finishes submissions on its own.   *)
(***************************************************************************)
\* the command buffers: shadowmapPass[i].commandBuffer, drawCmdBuffers[k] and
\* the deferredCmdBuffer handle h
ShadowCmd(i) == << "shadowmap", i >>
DrawCmd(k) == << "draw", k >>
DeferredCmd(h) == << "deferred", h >>

\* the semaphores a submission names
PresentCompleteSem == << "presentComplete", 0 >>
RenderCompleteSem == << "renderComplete", 0 >>
ShadowSem(i) == << "shadowmap", i >>
DeferredSem(h) == << "deferred", h >>

\* buildShadowmapCommandBuffer: VkClearValue clearValues[1];
\* renderPassBeginInfo.clearValueCount = 2; pClearValues = clearValues
ShadowBeginInfo == [pass |-> "shadowmap", clearValueCount |-> 2, clearValues |-> 1]

\* buildDeferredCommandBuffer: std::array<VkClearValue, 4> clearValues;
\* clearValueCount = clearValues.size(); pClearValues = clearValues.data()
DeferredBeginInfo == [pass |-> "deferred", clearValueCount |-> 4, clearValues |-> 4]

\* buildCommandBuffers: VkClearValue clearValues[2]; clearValueCount = 2
CompositionBeginInfo == [pass |-> "composition", clearValueCount |-> 2, clearValues |-> 2]

\* a submission the queue has not finished names the command buffer
InFlight(cmd, q) == \E s \in 1 .. Len(q) : q[s].cmd = cmd

\* vkDeviceWaitIdle(device) returns once the queue has finished everything
DeviceIdleMutant(q) == TRUE
DeviceIdle(q) == q = << >>

\* one entry of the log of re-recordings and frees
Rerecord(cmd, op) ==
    [cmd |-> cmd, op |-> op, pending |-> InFlight(cmd, pending), frames |-> rbFrames]

RebuildInit ==
    /\ rbPc = "buildShadowmapCommandBuffer"
    /\ pending = << >>
    /\ deferredCmd = 0
    /\ deferredSem = 0
    /\ liveSemaphores = {}
    /\ nextObject = 1
    /\ rerecords = {}
    /\ passBegins = {}
    /\ rbFrames = 0
    /\ rbToggles = 0

RebuildIdle ==
    /\ rbPc = "idle"
    /\ pending = << >>
    /\ deferredCmd = 0
    /\ deferredSem = 0
    /\ liveSemaphores = {}
    /\ nextObject = 1
    /\ rerecords = {}
    /\ passBegins = {}
    /\ rbFrames = 0
    /\ rbToggles = 0

\* prepare(): buildShadowmapCommandBuffer(), one vkCmdBeginRenderPass per light
PrepareBuildShadowmap ==
    /\ rbPc = "buildShadowmapCommandBuffer"
    /\ passBegins' = passBegins \cup {ShadowBeginInfo}
    /\ rbPc' = "buildCommandBuffers"
    /\ UNCHANGED << pending, deferredCmd, deferredSem, liveSemaphores, nextObject,
                    rerecords, rbFrames, rbToggles >>
    /\ UNCHANGED << registryVars, sceneVars, drawVars, materialVars, appVars,
                    prepareVars, memoryVars, lifetimeVars, lightVars >>

\* prepare(): buildCommandBuffers(), one vkCmdBeginRenderPass per swapchain image
PrepareBuildCommandBuffers ==
    /\ rbPc = "buildCommandBuffers"
    /\ passBegins' = passBegins \cup {CompositionBeginInfo}
    /\ rbPc' = "buildDeferredCommandBuffer"
    /\ UNCHANGED << pending, deferredCmd, deferredSem, liveSemaphores, nextObject,
                    rerecords, rbFrames, rbToggles >>
    /\ UNCHANGED << registryVars, sceneVars, drawVars, materialVars, appVars,
                    prepareVars, memoryVars, lifetimeVars, lightVars >>

\* buildDeferredCommandBuffer(rebuild): the command buffer is created when the
\* member is VK_NULL_HANDLE or on a rebuild, which frees the old one first;
\* a semaphore is created into deferredSemaphore on every call; then the
\* geometry pass is recorded
BuildDeferred(rebuild) ==
    /\ deferredCmd' =
          IF deferredCmd = 0 \/ rebuild THEN nextObject ELSE deferredCmd
    /\ rerecords' =
          IF rebuild
          THEN rerecords \cup {Rerecord(DeferredCmd(deferredCmd), "free")}
          ELSE IF deferredCmd = 0 THEN rerecords
          ELSE rerecords \cup {Rerecord(DeferredCmd(deferredCmd), "record")}
    /\ deferredSem' = nextObject + 1
    /\ liveSemaphores' = liveSemaphores \cup {nextObject + 1}
    /\ nextObject' = nextObject + 2
    /\ passBegins' = passBegins \cup {DeferredBeginInfo}

\* prepare(): buildDeferredCommandBuffer(); prepared = true
PrepareBuildDeferred ==
    /\ rbPc = "buildDeferredCommandBuffer"
    /\ BuildDeferred(FALSE)
    /\ rbPc' = "running"
    /\ UNCHANGED << pending, rbFrames, rbToggles >>
    /\ UNCHANGED << registryVars, sceneVars, drawVars, materialVars, appVars,
                    prepareVars, memoryVars, lifetimeVars, lightVars >>

\* the NUM_LIGHTS + 2 submissions of draw(), each naming the command buffer
\* and the semaphores the members hold when vkQueueSubmit is called
FrameSubmissions ==
    [s \in 1 .. NUM_LIGHTS + 2 |->
        IF s <= NUM_LIGHTS
        THEN [cmd |-> ShadowCmd(s - 1),
              wait |-> IF s = 1 THEN PresentCompleteSem ELSE ShadowSem(s - 2),
              signal |-> ShadowSem(s - 1)]
        ELSE IF s = NUM_LIGHTS + 1
        THEN [cmd |-> DeferredCmd(deferredCmd),
              wait |-> ShadowSem(NUM_LIGHTS - 1),
              signal |-> DeferredSem(deferredSem)]
        ELSE [cmd |-> DrawCmd(rbFrames % MaxImages),
              wait |-> DeferredSem(deferredSem),
              signal |-> RenderCompleteSem]]

\* render() in the render loop: draw() hands the frame's submissions to the queue
DrawFrame ==
    /\ rbPc = "running"
    /\ rbFrames < MaxFrames
    /\ pending' = pending \o FrameSubmissions
    /\ rbFrames' = rbFrames + 1
    /\ UNCHANGED << rbPc, deferredCmd, deferredSem, liveSemaphores, nextObject,
                    rerecords, passBegins, rbToggles >>
    /\ UNCHANGED << registryVars, sceneVars, drawVars, materialVars, appVars,
                    prepareVars, memoryVars, lifetimeVars, lightVars >>

\* the queue finishes its oldest submission
QueueRetire ==
    /\ pending # << >>
    /\ pending' = Tail(pending)
    /\ UNCHANGED << rbPc, deferredCmd, deferredSem, liveSemaphores, nextObject,
                    rerecords, passBegins, rbFrames, rbToggles >>
    /\ UNCHANGED << registryVars, sceneVars, drawVars, materialVars, appVars,
                    prepareVars, memoryVars, lifetimeVars, lightVars >>

\* keyPressed(KEY_F1): toggleDebugDisplay() up to the vkDeviceWaitIdle call of
\* reBuildCommandBuffers()
KeyF1 ==
    /\ rbPc = "running"
    /\ rbToggles < MaxToggles
    /\ rbPc' = "toggleDebugDisplay"
    /\ rbToggles' = rbToggles + 1
    /\ UNCHANGED << pending, deferredCmd, deferredSem, liveSemaphores, nextObject,
                    rerecords, passBegins, rbFrames >>
    /\ UNCHANGED << registryVars, sceneVars, drawVars, materialVars, appVars,
                    prepareVars, memoryVars, lifetimeVars, lightVars >>

\* keyPressed(KEY_F2): toggleSSAO() up to the vkDeviceWaitIdle call of
\* reBuildCommandBuffers()
KeyF2 ==
    /\ rbPc = "running"
    /\ rbToggles < MaxToggles
    /\ rbPc' = "toggleSSAO"
    /\ rbToggles' = rbToggles + 1
    /\ UNCHANGED << pending, deferredCmd, deferredSem, liveSemaphores, nextObject,
                    rerecords, passBegins, rbFrames >>
    /\ UNCHANGED << registryVars, sceneVars, drawVars, materialVars, appVars,
                    prepareVars, memoryVars, lifetimeVars, lightVars >>

\* reBuildCommandBuffers(): vkDeviceWaitIdle returns, buildCommandBuffers()
\* records every drawCmdBuffers[i] again
ReBuildCommandBuffers ==
    /\ rbPc \in {"toggleDebugDisplay", "toggleSSAO"}
    /\ DeviceIdle(pending)
    /\ rerecords' = rerecords \cup
          {Rerecord(DrawCmd(k), "record") : k \in 0 .. MaxImages - 1}
    /\ passBegins' = passBegins \cup {CompositionBeginInfo}
    /\ rbPc' = IF rbPc = "toggleSSAO" THEN "buildDeferredCommandBuffer(true)"
               ELSE "running"
    /\ UNCHANGED << pending, deferredCmd, deferredSem, liveSemaphores, nextObject,
                    rbFrames, rbToggles >>
    /\ UNCHANGED << registryVars, sceneVars, drawVars, materialVars, appVars,
                    prepareVars, memoryVars, lifetimeVars, lightVars >>

\* toggleSSAO(): buildDeferredCommandBuffer(true)
RebuildDeferred ==
    /\ rbPc = "buildDeferredCommandBuffer(true)"
    /\ BuildDeferred(TRUE)
    /\ rbPc' = "running"
    /\ UNCHANGED << pending, rbFrames, rbToggles >>
    /\ UNCHANGED << registryVars, sceneVars, drawVars, materialVars, appVars,
                    prepareVars, memoryVars, lifetimeVars, lightVars >>

(***************************************************************************)
(* Part 8: getMemTypeIndex.  typeBits and the property masks are naturals  *)
(* read bit by bit, as the loop of the function reads them.                *)
(***************************************************************************)
\* for (uint32_t i = 0; i < 32; i++)
MemTypeSlots == 32

\* the property masks: bit 0 is DEVICE_LOCAL, bit 1 is HOST_VISIBLE
PropertyMasks == 0 .. 3

\* typeBits masks naming the reported types and the slot right after them
RECURSIVE Pow2(_)
Pow2(n) == IF n = 0 THEN 1 ELSE 2 * Pow2(n - 1)

TypeBitsMasks == 0 .. Pow2(MaxMemTypes + 1) - 1

\* a & b on unsigned values
RECURSIVE BitAnd(_, _)
BitAnd(a, b) ==
    IF a = 0 \/ b = 0 THEN 0
    ELSE (a % 2) * (b % 2) + 2 * BitAnd(a \div 2, b \div 2)

\* deviceMemProps.memoryTypes[i].propertyFlags; the slots past memoryTypeCount
\* of the zero-initialised global hold 0
PropertyFlagsOf(types, i) == IF i < Len(types) THEN types[i + 1] ELSE 0

\* the index the function returns when its loop finds no memory type
NoneFound == 0

\* the loop of getMemTypeIndex from iteration i on, typeBits already shifted
\* right i times
RECURSIVE ScanMemTypes(_, _, _, _)
ScanMemTypes(i, typeBits, properties, types) ==
    IF i >= MemTypeSlots THEN NoneFound
    ELSE IF (typeBits % 2 = 1)
            /\ BitAnd(PropertyFlagsOf(types, i), properties) = properties
    THEN i
    ELSE ScanMemTypes(i + 1, typeBits \div 2, properties, types)

getMemTypeIndex(typeBits, properties, types) ==
    ScanMemTypes(0, typeBits, properties, types)

MemoryInit ==
    /\ memPc = "call"
    /\ memoryTypes \in [1 .. MaxMemTypes -> PropertyMasks]
    /\ memTypeBits \in TypeBitsMasks
    /\ memProperties \in PropertyMasks
    /\ memTypeIndex = 0

MemoryIdle ==
    /\ memPc = "idle"
    /\ memoryTypes = << >>
    /\ memTypeBits = 0
    /\ memProperties = 0
    /\ memTypeIndex = 0

\* a caller asks for a memory type
GetMemTypeIndexCall ==
    /\ memPc = "call"
    /\ memTypeIndex' = getMemTypeIndex(memTypeBits, memProperties, memoryTypes)
    /\ memPc' = "returned"
    /\ UNCHANGED << memoryTypes, memTypeBits, memProperties >>
    /\ UNCHANGED << registryVars, sceneVars, drawVars, materialVars, appVars,
                    rebuildVars, prepareVars, lifetimeVars, lightVars >>

(***************************************************************************)
(* Part 7: the call trace of prepare().  prepare() is the sequence of its  *)
(* steps; a step makes its registry calls one after the other, reads what  *)
(* earlier steps produced, and leaves its own product.  render() runs at   *)
(* any time and draws only once prepared is set.                           *)
(***************************************************************************)
\* the calls prepare() makes, in order
PrepareStepsMutant ==
    << "VulkanExampleBase::prepare", "setupDescriptorPool", "registries",
       "generateQuads", "loadAssets", "setupVertexDescriptions",
       "prepareShadowmapFramebuffer", "prepareOffscreenFramebuffers",
       "prepareUniformBuffers", "setupLayoutsAndDescriptors", "preparePipelines",
       "buildShadowmapCommandBuffer", "loadScene", "buildCommandBuffers",
       "buildDeferredCommandBuffer" >>
PrepareSteps ==
    << "VulkanExampleBase::prepare", "setupDescriptorPool", "registries",
       "generateQuads", "loadAssets", "setupVertexDescriptions",
       "prepareShadowmapFramebuffer", "prepareOffscreenFramebuffers",
       "prepareUniformBuffers", "setupLayoutsAndDescriptors", "preparePipelines",
       "loadScene", "buildShadowmapCommandBuffer", "buildCommandBuffers",
       "buildDeferredCommandBuffer" >>

\* the position of a step in prepare()
StepIndex(step) == CHOOSE k \in 1 .. Len(PrepareSteps) : PrepareSteps[k] = step

\* the position of the thread once prepare() has returned
RenderLoop == Len(PrepareSteps) + 1

\* what a step reads: the products of these steps
StepUses(step) ==
    CASE step = "registries" -> {"VulkanExampleBase::prepare", "setupDescriptorPool"}
      [] step = "generateQuads" -> {"VulkanExampleBase::prepare"}
      [] step = "loadAssets" -> {"VulkanExampleBase::prepare", "registries"}
      [] step = "prepareShadowmapFramebuffer" -> {"VulkanExampleBase::prepare"}
      [] step = "prepareOffscreenFramebuffers" -> {"VulkanExampleBase::prepare"}
      [] step = "prepareUniformBuffers" -> {"VulkanExampleBase::prepare"}
      [] step = "setupLayoutsAndDescriptors" ->
            {"setupDescriptorPool", "registries", "loadAssets",
             "prepareShadowmapFramebuffer", "prepareOffscreenFramebuffers",
             "prepareUniformBuffers"}
      [] step = "preparePipelines" ->
            {"VulkanExampleBase::prepare", "registries", "setupVertexDescriptions",
             "prepareShadowmapFramebuffer", "prepareOffscreenFramebuffers",
             "setupLayoutsAndDescriptors"}
      [] step = "loadScene" ->
            {"VulkanExampleBase::prepare", "registries", "prepareUniformBuffers",
             "preparePipelines"}
      [] step = "buildShadowmapCommandBuffer" ->
            {"VulkanExampleBase::prepare", "registries",
             "prepareShadowmapFramebuffer", "setupLayoutsAndDescriptors",
             "preparePipelines", "loadScene"}
      [] step = "buildCommandBuffers" ->
            {"VulkanExampleBase::prepare", "registries", "generateQuads",
             "setupLayoutsAndDescriptors", "preparePipelines"}
      [] step = "buildDeferredCommandBuffer" ->
            {"VulkanExampleBase::prepare", "registries", "loadAssets",
             "prepareOffscreenFramebuffers", "setupLayoutsAndDescriptors",
             "preparePipelines", "loadScene"}
      [] OTHER -> {}

\* one call on a registry of the Resources struct
Call(op, list, name) == [op |-> op, list |-> list, name |-> name]

\* setupLayoutsAndDescriptors: the five calls made for each of its layouts
LayoutCalls(name) ==
    << Call("add", "descriptorSetLayouts", name),
       Call("getPtr", "descriptorSetLayouts", name),
       Call("add", "pipelineLayouts", name),
       Call("getPtr", "descriptorSetLayouts", name),
       Call("add", "descriptorSets", name) >>

setupLayoutsAndDescriptors ==
    LayoutCalls("composition") \o LayoutCalls("shadowmap")
    \o LayoutCalls("offscreen") \o LayoutCalls("skysphere")
    \o << Call("get", "textures", "skysphere") >>

preparePipelines ==
    << Call("get", "pipelineLayouts", "composition"),
       Call("add", "pipelines", "composition"),
       Call("get", "pipelines", "composition.ssao.enabled"),
       Call("add", "pipelines", "debugdisplay"),
       Call("get", "pipelineLayouts", "offscreen"),
       Call("add", "pipelines", "scene.solid"),
       Call("add", "pipelines", "scene.blend"),
       Call("get", "pipelineLayouts", "skysphere"),
       Call("add", "pipelines", "skysphere"),
       Call("get", "pipelineLayouts", "shadowmap"),
       Call("add", "pipelines", "shadowmap") >>

\* loadMaterials, one material: a material with a diffuse texture file asks
\* present(fileName) and adds or gets it; every other channel of the
\* materials modelled here falls back to a dummy texture
MaterialKinds == {"plain", "textured"}

MaterialCalls(type) ==
    << IF type = "textured" THEN Call("addIfAbsent", "textures", "diffuse.dds")
       ELSE Call("get", "textures", "dummy.diffuse"),
       Call("get", "textures", "dummy.specular"),
       Call("get", "textures", "dialectric.metallic"),
       Call("get", "textures", "dummy.bump"),
       Call("get", "pipelines", "scene.solid") >>

RECURSIVE MaterialsCalls(_)
MaterialsCalls(mats) ==
    IF mats = << >> THEN << >>
    ELSE MaterialCalls(Head(mats)) \o MaterialsCalls(Tail(mats))

\* Scene::load: nothing on a failed import, else loadMaterials
loadScene(scene) ==
    IF scene.import # "ok" THEN << >>
    ELSE << Call("add", "textures", "dummy.diffuse"),
            Call("add", "textures", "dummy.specular"),
            Call("add", "textures", "dummy.bump"),
            Call("add", "textures", "dialectric.metallic") >>
         \o MaterialsCalls(scene.materials)

\* the calls of one loop iteration, n times
RECURSIVE Repeat(_, _)
Repeat(calls, n) == IF n = 0 THEN << >> ELSE calls \o Repeat(calls, n - 1)

buildShadowmapCommandBuffer ==
    Repeat(<< Call("get", "pipelineLayouts", "shadowmap"),
              Call("get", "pipelines", "shadowmap"),
              Call("getPtr", "descriptorSets", "shadowmap") >>, NUM_LIGHTS)

buildCommandBuffers(debug) ==
    Repeat(<< Call("get", "pipelineLayouts", "composition"),
              Call("getPtr", "descriptorSets", "composition") >>
           \o (IF debug THEN << Call("get", "pipelines", "debugdisplay") >>
               ELSE << >>)
           \o << Call("get", "pipelines", "composition") >>, MaxImages)

buildDeferredCommandBuffer ==
    << Call("get", "pipelines", "skysphere"),
       Call("get", "pipelineLayouts", "skysphere"),
       Call("getPtr", "descriptorSets", "skysphere"),
       Call("get", "pipelines", "scene.solid"),
       Call("get", "pipelines", "scene.blend") >>

\* the registry calls of a step of prepare()
StepCalls(step, scene) ==
    CASE step = "loadAssets" -> << Call("add", "textures", "skysphere") >>
      [] step = "setupLayoutsAndDescriptors" -> setupLayoutsAndDescriptors
      [] step = "preparePipelines" -> preparePipelines
      [] step = "loadScene" -> loadScene(scene)
      [] step = "buildShadowmapCommandBuffer" -> buildShadowmapCommandBuffer
      [] step = "buildCommandBuffers" -> buildCommandBuffers(scene.debugDisplay)
      [] step = "buildDeferredCommandBuffer" -> buildDeferredCommandBuffer
      [] OTHER -> << >>

CurrentStep == PrepareSteps[prepPc.step]
CurrentCalls == StepCalls(CurrentStep, prepScene)
InStep == prepPc.step \in 1 .. Len(PrepareSteps)
HasCall == InStep /\ prepPc.call <= Len(CurrentCalls)
CurrentCall == CurrentCalls[prepPc.call]

\* loadScene has to import the model before it makes its calls
ImportPending == InStep /\ CurrentStep = "loadScene" /\ prepScene.import = "none"

PrepareInit ==
    /\ prepPc = [step |-> 1, call |-> 1]
    /\ entries = {}
    /\ defaults = {}
    /\ lookups = {}
    /\ products = {}
    /\ uses = {}
    /\ prepScene = [import |-> "none", materials |-> << >>,
                    debugDisplay |-> FALSE, toggles |-> 0]

PrepareIdle ==
    /\ prepPc = [step |-> 0, call |-> 0]
    /\ entries = {}
    /\ defaults = {}
    /\ lookups = {}
    /\ products = {}
    /\ uses = {}
    /\ prepScene = [import |-> "none", materials |-> << >>,
                    debugDisplay |-> FALSE, toggles |-> 0]

\* what a get or getPtr call finds
Lookup(c) ==
    [list |-> c.list, name |-> c.name, op |-> c.op,
     found |-> << c.list, c.name >> \in entries]

\* Scene::load: Importer.ReadFile returns
ImportScene(result, mats) ==
    /\ ImportPending
    /\ prepScene' = [prepScene EXCEPT !.import = result,
                        !.materials = IF result = "ok" THEN mats ELSE << >>]
    /\ UNCHANGED << prepPc, entries, defaults, lookups, products, uses >>
    /\ UNCHANGED << registryVars, sceneVars, drawVars, materialVars, appVars,
                    rebuildVars, memoryVars, lifetimeVars, lightVars >>

\* add(name, ...): resources[name] = the created handle
CallAdd ==
    /\ HasCall /\ ~ImportPending
    /\ CurrentCall.op = "add"
    /\ entries' = entries \cup {<< CurrentCall.list, CurrentCall.name >>}
    /\ defaults' = defaults \ {<< CurrentCall.list, CurrentCall.name >>}
    /\ prepPc' = [prepPc EXCEPT !.call = @ + 1]
    /\ UNCHANGED << lookups, products, uses, prepScene >>
    /\ UNCHANGED << registryVars, sceneVars, drawVars, materialVars, appVars,
                    rebuildVars, memoryVars, lifetimeVars, lightVars >>

\* get(name) / getPtr(name): resources[name], which inserts an empty entry
\* when the name is absent
CallGet ==
    /\ HasCall /\ ~ImportPending
    /\ CurrentCall.op \in {"get", "getPtr"}
    /\ lookups' = lookups \cup {Lookup(CurrentCall)}
    /\ defaults' = IF << CurrentCall.list, CurrentCall.name >> \in entries
                   THEN defaults
                   ELSE defaults \cup {<< CurrentCall.list, CurrentCall.name >>}
    /\ prepPc' = [prepPc EXCEPT !.call = @ + 1]
    /\ UNCHANGED << entries, products, uses, prepScene >>
    /\ UNCHANGED << registryVars, sceneVars, drawVars, materialVars, appVars,
                    rebuildVars, memoryVars, lifetimeVars, lightVars >>

\* if (!present(fileName)) addTexture2D(fileName, ...) else get(fileName)
CallAddIfAbsent ==
    /\ HasCall /\ ~ImportPending
    /\ CurrentCall.op = "addIfAbsent"
    /\ LET key == << CurrentCall.list, CurrentCall.name >>
       IN  IF key \in entries \cup defaults
           THEN /\ lookups' = lookups \cup {Lookup(CurrentCall)}
                /\ UNCHANGED entries
           ELSE /\ entries' = entries \cup {key}
                /\ UNCHANGED lookups
    /\ prepPc' = [prepPc EXCEPT !.call = @ + 1]
    /\ UNCHANGED << defaults, products, uses, prepScene >>
    /\ UNCHANGED << registryVars, sceneVars, drawVars, materialVars, appVars,
                    rebuildVars, memoryVars, lifetimeVars, lightVars >>

\* the step returns: what it read is recorded, its product exists; after the
\* last step of prepare(), prepared = true; a re-recording returns to the
\* render loop
FinishStep ==
    /\ InStep /\ ~HasCall /\ ~ImportPending
    /\ uses' = uses \cup
          {[step |-> CurrentStep, product |-> q, existed |-> q \in products] :
              q \in StepUses(CurrentStep)}
    /\ products' = products \cup {CurrentStep}
    /\ prepPc' = IF prepared THEN [step |-> RenderLoop, call |-> 1]
                 ELSE [step |-> prepPc.step + 1, call |-> 1]
    /\ prepared' = (prepared \/ prepPc.step = Len(PrepareSteps))
    /\ UNCHANGED << entries, defaults, lookups, prepScene >>
    /\ UNCHANGED << appPc, importResult, errorReported, loaded, uploads,
                    debugDisplay, drawCmdBuffers, builds, toggles,
                    framesSubmitted >>
    /\ UNCHANGED << registryVars, sceneVars, drawVars, materialVars,
                    rebuildVars, memoryVars, lifetimeVars, lightVars >>

\* toggleDebugDisplay() in the render loop: debugDisplay = !debugDisplay;
\* reBuildCommandBuffers() runs buildCommandBuffers() again
ToggleRecord ==
    /\ prepPc.step = RenderLoop
    /\ prepScene.toggles < MaxToggles
    /\ prepScene' = [prepScene EXCEPT !.debugDisplay = ~@, !.toggles = @ + 1]
    /\ prepPc' = [step |-> StepIndex("buildCommandBuffers"), call |-> 1]
    /\ UNCHANGED << entries, defaults, lookups, products, uses >>
    /\ UNCHANGED << registryVars, sceneVars, drawVars, materialVars, appVars,
                    rebuildVars, memoryVars, lifetimeVars, lightVars >>

(***************************************************************************)
(* Part 9: the lifetime of the device objects: what prepare() and          *)
(* Scene::loadMeshes create, which member holds each handle, and what the  *)
(* destructors of VulkanExample and Scene destroy.  An object is known by  *)
(* its serial number, the position of its creation among all creations.    *)
(***************************************************************************)
\* the member variables that hold handles
ShadowMember(i, field) == << "shadowmapPass", i, field >>
OffscreenMember(field) == << "frameBuffers.offscreen", 0, field >>
AttachmentMember(k, field) == << "frameBuffers.offscreen.attachments", k, field >>
UniformMember(name) == << "uniformBuffers", 0, name >>
MeshMember(i, field) == << "scene.meshes", i, field >>
SceneMember(field) == << "scene", 0, field >>
StagingMember(field) == << "staging", 0, field >>
ExampleMember(field) == << "VulkanExample", 0, field >>
NoMember == << "", 0, "" >>

\* a creation call that stores the new handle in a member, and a destroy or
\* free call on the handle a member holds
CreateOp(type, member) ==
    [op |-> "create", kind |-> type, member |-> member, with |-> NoMember]
CreateWith(type, member, other) ==
    [op |-> "create", kind |-> type, member |-> member, with |-> other]
DestroyOp(member) ==
    [op |-> "destroy", kind |-> "", member |-> member, with |-> NoMember]

\* the effect of one call on the ledger
ApplyOp(st, o) ==
    IF o.op = "create"
    THEN LET n == Cardinality(st.objects) + 1
         IN  [objects |-> st.objects \cup
                  {[kind |-> o.kind, member |-> o.member, serial |-> n,
                    with |-> IF o.with = NoMember THEN 0 ELSE st.held[o.with]]},
              held |-> [m \in (DOMAIN st.held) \cup {o.member} |->
                           IF m = o.member THEN n ELSE st.held[m]],
              destroys |-> Append(st.destroys, 0)]
    ELSE [st EXCEPT !.destroys[st.held[o.member]] = @ + 1]

\* the effect of a sequence of calls, in program order
RECURSIVE RunOps(_, _)
RunOps(st, ops) ==
    IF ops = << >> THEN st ELSE RunOps(ApplyOp(st, Head(ops)), Tail(ops))

Ledger == [objects |-> objects, held |-> held, destroys |-> destroys]

\* the calls of a step are made and the thread moves on
Calls(ops, next) ==
    LET st == RunOps(Ledger, ops)
    IN  /\ objects' = st.objects
        /\ held' = st.held
        /\ destroys' = st.destroys
        /\ lifePc' = next
        /\ UNCHANGED lifeMeshes

At9(at, i) == [at |-> at, i |-> i]

\* prepareShadowmapRenderpass(): for (i < NUM_LIGHTS) vkCreateRenderPass(...,
\* &shadowmapPass[i].renderPass)
RenderpassLights == 0 .. NUM_LIGHTS - 1

RECURSIVE ShadowmapRenderpassOps(_)
ShadowmapRenderpassOps(j) ==
    IF j \notin RenderpassLights THEN << >>
    ELSE << CreateOp("renderPass", ShadowMember(j, "renderPass")) >>
            \o ShadowmapRenderpassOps(j + 1)

\* createAttachment(format, usage, attachment, width, height)
AttachmentOps(member) ==
    << CreateOp("image", << member[1], member[2], "image" >>),
       CreateOp("memory", << member[1], member[2], "mem" >>),
       CreateOp("imageView", << member[1], member[2], "view" >>) >>

\* loadMeshes, iteration i of the mesh loop: staging buffers, the mesh's own
\* device-local vertex and index buffer, the copy, the staging buffers freed
MeshBufferOps(i) ==
    << CreateOp("stagingBuffer", StagingMember("vBuffer.buffer")),
       CreateOp("memory", StagingMember("vBuffer.memory")),
       CreateOp("deviceLocalBuffer", MeshMember(i, "vertexBuffer")),
       CreateOp("memory", MeshMember(i, "vertexMemory")),
       CreateOp("stagingBuffer", StagingMember("iBuffer.buffer")),
       CreateOp("memory", StagingMember("iBuffer.memory")),
       CreateOp("deviceLocalBuffer", MeshMember(i, "indexBuffer")),
       CreateOp("memory", MeshMember(i, "indexMemory")),
       DestroyOp(StagingMember("vBuffer.buffer")),
       DestroyOp(StagingMember("vBuffer.memory")),
       DestroyOp(StagingMember("iBuffer.buffer")),
       DestroyOp(StagingMember("iBuffer.memory")) >>

\* loadMeshes after the mesh loop: the global buffers through staging, then
\* the descriptor pool, the set layout and the pipeline layout of the scene
GlobalBufferOps ==
    << CreateOp("stagingBuffer", StagingMember("vBuffer.buffer")),
       CreateOp("memory", StagingMember("vBuffer.memory")),
       CreateOp("deviceLocalBuffer", SceneMember("vertexBuffer.buffer")),
       CreateOp("memory", SceneMember("vertexBuffer.memory")),
       CreateOp("stagingBuffer", StagingMember("iBuffer.buffer")),
       CreateOp("memory", StagingMember("iBuffer.memory")),
       CreateOp("deviceLocalBuffer", SceneMember("indexBuffer.buffer")),
       CreateOp("memory", SceneMember("indexBuffer.memory")),
       DestroyOp(StagingMember("vBuffer.buffer")),
       DestroyOp(StagingMember("vBuffer.memory")),
       DestroyOp(StagingMember("iBuffer.buffer")),
       DestroyOp(StagingMember("iBuffer.memory")),
       CreateOp("descriptorPool", SceneMember("descriptorPool")),
       CreateOp("descriptorSetLayout", SceneMember("descriptorSetLayout")),
       CreateOp("pipelineLayout", SceneMember("pipelineLayout")) >>

\* ~Scene(): the buffers and memory of mesh i
RECURSIVE SceneDtorMeshOps(_, _)
SceneDtorMeshOps(i, n) ==
    IF i >= n THEN << >>
    ELSE << DestroyOp(MeshMember(i, "vertexBuffer")),
            DestroyOp(MeshMember(i, "vertexMemory")),
            DestroyOp(MeshMember(i, "indexBuffer")),
            DestroyOp(MeshMember(i, "indexMemory")) >>
            \o SceneDtorMeshOps(i + 1, n)

\* ~Scene()
SceneDtorOps(n) ==
    SceneDtorMeshOps(0, n)
    \o << DestroyOp(SceneMember("pipelineLayout")),
          DestroyOp(SceneMember("descriptorSetLayout")),
          DestroyOp(SceneMember("descriptorPool")) >>

\* ~VulkanExample() up to delete(scene), the registries left aside
RECURSIVE ExampleDtorAttachmentOps(_)
ExampleDtorAttachmentOps(k) ==
    IF k >= 3 THEN << >>
    ELSE << DestroyOp(AttachmentMember(k, "view")),
            DestroyOp(AttachmentMember(k, "image")),
            DestroyOp(AttachmentMember(k, "mem")) >>
            \o ExampleDtorAttachmentOps(k + 1)

ExampleDtorOps ==
    << DestroyOp(ExampleMember("colorSampler")) >>
    \o ExampleDtorAttachmentOps(0)
    \o << DestroyOp(OffscreenMember("view")),
          DestroyOp(OffscreenMember("image")),
          DestroyOp(OffscreenMember("mem")),
          DestroyOp(OffscreenMember("frameBuffer")),
          DestroyOp(UniformMember("fullScreen")),
          DestroyOp(UniformMember("sceneMatrices")),
          DestroyOp(UniformMember("sceneLights")),
          DestroyOp(OffscreenMember("renderPass")) >>

LifetimeInit ==
    /\ lifePc = At9("shadow.image", 0)
    /\ objects = {}
    /\ held = [m \in {} |-> 0]
    /\ destroys = << >>
    /\ lifeMeshes \in 0 .. MaxMeshes

LifetimeIdle ==
    /\ lifePc = At9("idle", 0)
    /\ objects = {}
    /\ held = [m \in {} |-> 0]
    /\ destroys = << >>
    /\ lifeMeshes = 0

\* prepareShadowmapFramebuffer, light i: vkCreateImage
ShadowCreateImage ==
    /\ lifePc.at = "shadow.image"
    /\ Calls(<< CreateOp("image", ShadowMember(lifePc.i, "depth.image")) >>,
             At9("shadow.memory", lifePc.i))
    /\ UNCHANGED << registryVars, sceneVars, drawVars, materialVars, appVars,
                    rebuildVars, prepareVars, memoryVars, lightVars >>

\* prepareShadowmapFramebuffer, light i: vkAllocateMemory, vkBindImageMemory
ShadowAllocateMemory ==
    /\ lifePc.at = "shadow.memory"
    /\ Calls(<< CreateOp("memory", ShadowMember(lifePc.i, "depth.mem")) >>,
             At9("shadow.view", lifePc.i))
    /\ UNCHANGED << registryVars, sceneVars, drawVars, materialVars, appVars,
                    rebuildVars, prepareVars, memoryVars, lightVars >>

\* prepareShadowmapFramebuffer, light i: vkCreateImageView
ShadowCreateImageView ==
    /\ lifePc.at = "shadow.view"
    /\ Calls(<< CreateOp("imageView", ShadowMember(lifePc.i, "depth.view")) >>,
             At9("shadow.sampler", lifePc.i))
    /\ UNCHANGED << registryVars, sceneVars, drawVars, materialVars, appVars,
                    rebuildVars, prepareVars, memoryVars, lightVars >>

\* prepareShadowmapFramebuffer, light i: vkCreateSampler
ShadowCreateSampler ==
    /\ lifePc.at = "shadow.sampler"
    /\ Calls(<< CreateOp("sampler", ShadowMember(lifePc.i, "depthSampler")) >>,
             At9("shadow.renderpass", lifePc.i))
    /\ UNCHANGED << registryVars, sceneVars, drawVars, materialVars, appVars,
                    rebuildVars, prepareVars, memoryVars, lightVars >>

\* prepareShadowmapFramebuffer, light i: prepareShadowmapRenderpass()
PrepareShadowmapRenderpass ==
    /\ lifePc.at = "shadow.renderpass"
    /\ Calls(ShadowmapRenderpassOps(0), At9("shadow.framebuffer", lifePc.i))
    /\ UNCHANGED << registryVars, sceneVars, drawVars, materialVars, appVars,
                    rebuildVars, prepareVars, memoryVars, lightVars >>

\* prepareShadowmapFramebuffer, light i: vkCreateFramebuffer with
\* fbufCreateInfo.renderPass = shadowmapPass[i].renderPass; then the next light
ShadowCreateFramebuffer ==
    /\ lifePc.at = "shadow.framebuffer"
    /\ ShadowMember(lifePc.i, "renderPass") \in DOMAIN held
    /\ Calls(<< CreateWith("framebuffer", ShadowMember(lifePc.i, "frameBuffer"),
                           ShadowMember(lifePc.i, "renderPass")) >>,
             IF lifePc.i + 1 < NUM_LIGHTS THEN At9("shadow.image", lifePc.i + 1)
             ELSE At9("offscreen.attachment", 0))
    /\ UNCHANGED << registryVars, sceneVars, drawVars, materialVars, appVars,
                    rebuildVars, prepareVars, memoryVars, lightVars >>

\* prepareOffscreenFramebuffers: createAttachment for the three colour
\* attachments (k < 3) and for the depth attachment (k = 3)
CreateAttachment ==
    /\ lifePc.at = "offscreen.attachment"
    /\ Calls(AttachmentOps(IF lifePc.i < 3 THEN AttachmentMember(lifePc.i, "")
                           ELSE OffscreenMember("")),
             IF lifePc.i < 3 THEN At9("offscreen.attachment", lifePc.i + 1)
             ELSE At9("offscreen.framebuffer", 0))
    /\ UNCHANGED << registryVars, sceneVars, drawVars, materialVars, appVars,
                    rebuildVars, prepareVars, memoryVars, lightVars >>

\* prepareOffscreenFramebuffers: the render pass, the framebuffer and the
\* colour sampler
CreateOffscreenFramebuffer ==
    /\ lifePc.at = "offscreen.framebuffer"
    /\ Calls(<< CreateOp("renderPass", OffscreenMember("renderPass")),
                CreateWith("framebuffer", OffscreenMember("frameBuffer"),
                           OffscreenMember("renderPass")),
                CreateOp("sampler", ExampleMember("colorSampler")) >>,
             At9("uniformBuffers", 0))
    /\ UNCHANGED << registryVars, sceneVars, drawVars, materialVars, appVars,
                    rebuildVars, prepareVars, memoryVars, lightVars >>

\* prepareUniformBuffers: the four vulkanDevice->createBuffer calls
CreateUniformBuffers ==
    /\ lifePc.at = "uniformBuffers"
    /\ Calls(<< CreateOp("uniformBuffer", UniformMember("shadowmap")),
                CreateOp("uniformBuffer", UniformMember("fullScreen")),
                CreateOp("uniformBuffer", UniformMember("sceneMatrices")),
                CreateOp("uniformBuffer", UniformMember("sceneLights")) >>,
             At9("loadMeshes", 0))
    /\ UNCHANGED << registryVars, sceneVars, drawVars, materialVars, appVars,
                    rebuildVars, prepareVars, memoryVars, lightVars >>

\* loadMeshes: one iteration of the mesh loop
CreateMeshBuffers ==
    /\ lifePc.at = "loadMeshes"
    /\ lifePc.i < lifeMeshes
    /\ Calls(MeshBufferOps(lifePc.i), At9("loadMeshes", lifePc.i + 1))
    /\ UNCHANGED << registryVars, sceneVars, drawVars, materialVars, appVars,
                    rebuildVars, prepareVars, memoryVars, lightVars >>

\* loadMeshes: after the mesh loop
CreateGlobalBuffers ==
    /\ lifePc.at = "loadMeshes"
    /\ lifePc.i = lifeMeshes
    /\ Calls(GlobalBufferOps, At9("buildShadowmapCommandBuffer", 0))
    /\ UNCHANGED << registryVars, sceneVars, drawVars, materialVars, appVars,
                    rebuildVars, prepareVars, memoryVars, lightVars >>

\* buildShadowmapCommandBuffer, light i: the command buffer and the semaphore,
\* both created because the members are VK_NULL_HANDLE
CreateShadowmapCommandBuffer ==
    /\ lifePc.at = "buildShadowmapCommandBuffer"
    /\ Calls(<< CreateOp("commandBuffer", ShadowMember(lifePc.i, "commandBuffer")),
                CreateOp("semaphore", ShadowMember(lifePc.i, "semaphore")) >>,
             IF lifePc.i + 1 < NUM_LIGHTS
             THEN At9("buildShadowmapCommandBuffer", lifePc.i + 1)
             ELSE At9("buildDeferredCommandBuffer", 0))
    /\ UNCHANGED << registryVars, sceneVars, drawVars, materialVars, appVars,
                    rebuildVars, prepareVars, memoryVars, lightVars >>

\* buildDeferredCommandBuffer(): the command buffer and the semaphore;
\* prepared = true
CreateDeferredCommandBuffer ==
    /\ lifePc.at = "buildDeferredCommandBuffer"
    /\ Calls(<< CreateOp("commandBuffer", ExampleMember("deferredCmdBuffer")),
                CreateOp("semaphore", ExampleMember("deferredSemaphore")) >>,
             At9("prepared", 0))
    /\ UNCHANGED << registryVars, sceneVars, drawVars, materialVars, appVars,
                    rebuildVars, prepareVars, memoryVars, lightVars >>

\* toggleSSAO(): buildDeferredCommandBuffer(true) frees the command buffer and
\* creates a new one and a new semaphore
RecreateDeferredCommandBuffer ==
    /\ lifePc.at = "prepared"
    /\ Cardinality({o \in objects : o.member = ExampleMember("deferredSemaphore")})
          <= MaxToggles
    /\ Calls(<< DestroyOp(ExampleMember("deferredCmdBuffer")),
                CreateOp("commandBuffer", ExampleMember("deferredCmdBuffer")),
                CreateOp("semaphore", ExampleMember("deferredSemaphore")) >>,
             lifePc)
    /\ UNCHANGED << registryVars, sceneVars, drawVars, materialVars, appVars,
                    rebuildVars, prepareVars, memoryVars, lightVars >>

\* ~VulkanExample() up to delete(scene)
DestroyExample ==
    /\ lifePc.at = "prepared"
    /\ Calls(ExampleDtorOps
             \o << DestroyOp(ExampleMember("deferredCmdBuffer")),
                   DestroyOp(ExampleMember("deferredSemaphore")) >>,
             At9("delete(scene)", 0))
    /\ UNCHANGED << registryVars, sceneVars, drawVars, materialVars, appVars,
                    rebuildVars, prepareVars, memoryVars, lightVars >>

\* delete(scene): ~Scene()
DestroyScene ==
    /\ lifePc.at = "delete(scene)"
    /\ Calls(SceneDtorOps(lifeMeshes), At9("destroyed", 0))
    /\ UNCHANGED << registryVars, sceneVars, drawVars, materialVars, appVars,
                    rebuildVars, prepareVars, memoryVars, lightVars >>

(***************************************************************************)
(* Part 10: the lights and the two uniform buffers that carry their        *)
(* light-space matrices.  A vector is the tuple of its x, y, z components; *)
(* a light-space matrix is identified by the eye and the centre its view   *)
(* matrix was built from (the projection is the same for every light).     *)
(***************************************************************************)
VecAdd(a, b) == << a[1] + b[1], a[2] + b[2], a[3] + b[3] >>
VecNeg(a) == << 0 - a[1], 0 - a[2], 0 - a[3] >>

\* setupSpotLight: glm::perspective(coneAngle, 1, zNear, zFar) *
\* glm::lookAt(pos, pos + dir, up)
LightSpace(pos, dir) == [eye |-> pos, center |-> VecAdd(pos, dir)]

\* setupSpotLight(light, pos, dir, coneAngle, color)
setupSpotLight(pos, dir) ==
    [position |-> pos, dir |-> dir, lightSpace |-> LightSpace(pos, dir)]

\* setupLights(): center = (0, 0, -15); pos[0] = (0, -15, 0);
\* pos[1] = center + (30, -30, 15); lights 0 and 1 stand at pos[0]
setupLights ==
    << setupSpotLight(<< 0, -15, 0 >>, << 1, 0, 0 >>),
       setupSpotLight(<< 0, -15, 0 >>, << -1, 0, 0 >>),
       setupSpotLight(<< 30, -30, 0 >>, << 0, 0, 1 >>) >>

\* the places the camera is moved to: the one that puts an attached light
\* where setupLights put light 0, the one the constructor sets, and others
CameraPositions ==
    { << 0, 15, 0 >>, << -125, 6, 0 >>, << 10, 2, 3 >>, << 0, 0, 0 >>,
      << -30, 30, 0 >> }

\* the members before setupLights has run
UnsetLight == setupSpotLight(<< 0, 0, 0 >>, << 0, 0, 0 >>)

\* updateUniformBufferDeferredLights(): with attachLight the position of
\* light 0 becomes the negated camera position; nothing else of a light changes
DeferredLights(ls, attach, camera) ==
    [i \in 1 .. NUM_LIGHTS |->
        IF attach /\ i = 1
        THEN [ls[i] EXCEPT !.position = VecNeg(camera)]
        ELSE ls[i]]

\* updateUniformBufferShadowmap(): depthMVP[i] = lights[i].lightSpace
ShadowmapMatrices(ls) == [i \in 1 .. NUM_LIGHTS |-> ls[i].lightSpace]

LightInit ==
    /\ lightPc = "setupLights"
    /\ lights = [i \in 1 .. NUM_LIGHTS |-> UnsetLight]
    /\ attachLight = FALSE
    /\ cameraPosition = << -125, 6, 0 >>
    /\ depthMVP = [i \in 1 .. NUM_LIGHTS |-> UnsetLight.lightSpace]
    /\ sceneLightsBuffer = [i \in 1 .. NUM_LIGHTS |-> UnsetLight]
    /\ shadowmapBuffer = [i \in 1 .. NUM_LIGHTS |-> UnsetLight.lightSpace]
    /\ lightFrames = 0

LightIdle ==
    /\ lightPc = "idle"
    /\ lights = << >>
    /\ attachLight = FALSE
    /\ cameraPosition = << 0, 0, 0 >>
    /\ depthMVP = << >>
    /\ sceneLightsBuffer = << >>
    /\ shadowmapBuffer = << >>
    /\ lightFrames = 0

\* prepareUniformBuffers(): setupLights(); updateUniformBufferShadowmap();
\* ...; updateUniformBufferDeferredLights()
PrepareUniformBuffers ==
    /\ lightPc = "setupLights"
    /\ LET set == setupLights
           moved == DeferredLights(set, attachLight, cameraPosition)
       IN  /\ depthMVP' = ShadowmapMatrices(set)
           /\ shadowmapBuffer' = ShadowmapMatrices(set)
           /\ lights' = moved
           /\ sceneLightsBuffer' = moved
    /\ lightPc' = "running"
    /\ UNCHANGED << attachLight, cameraPosition, lightFrames >>
    /\ UNCHANGED << registryVars, sceneVars, drawVars, materialVars, appVars,
                    rebuildVars, prepareVars, memoryVars, lifetimeVars >>

\* the camera is moved by the input handling of the render loop
MoveCamera(p) ==
    /\ lightPc = "running"
    /\ p # cameraPosition
    /\ cameraPosition' = p
    /\ UNCHANGED << lightPc, lights, attachLight, depthMVP, sceneLightsBuffer,
                    shadowmapBuffer, lightFrames >>
    /\ UNCHANGED << registryVars, sceneVars, drawVars, materialVars, appVars,
                    rebuildVars, prepareVars, memoryVars, lifetimeVars >>

\* keyPressed(KEY_L): attachLight = !attachLight
KeyL ==
    /\ lightPc = "running"
    /\ attachLight' = ~attachLight
    /\ UNCHANGED << lightPc, lights, cameraPosition, depthMVP, sceneLightsBuffer,
                    shadowmapBuffer, lightFrames >>
    /\ UNCHANGED << registryVars, sceneVars, drawVars, materialVars, appVars,
                    rebuildVars, prepareVars, memoryVars, lifetimeVars >>

\* render(): draw(); updateUniformBufferDeferredLights();
\* updateUniformBufferShadowmap()
RenderUpdate ==
    /\ lightPc = "running"
    /\ lightFrames < MaxFrames
    /\ LET moved == DeferredLights(lights, attachLight, cameraPosition)
       IN  /\ lights' = moved
           /\ sceneLightsBuffer' = moved
           /\ depthMVP' = ShadowmapMatrices(moved)
           /\ shadowmapBuffer' = ShadowmapMatrices(moved)
    /\ lightFrames' = lightFrames + 1
    /\ UNCHANGED << lightPc, attachLight, cameraPosition >>
    /\ UNCHANGED << registryVars, sceneVars, drawVars, materialVars, appVars,
                    rebuildVars, prepareVars, memoryVars, lifetimeVars >>

(***************************************************************************)
(* The specifications.                                                     *)
(***************************************************************************)
InitRegistry ==
    /\ RegistryInit /\ SceneIdle /\ DrawIdle /\ MaterialIdle /\ AppIdle
    /\ RebuildIdle /\ PrepareIdle /\ MemoryIdle /\ LifetimeIdle /\ LightIdle
NextRegistry ==
    \/ \E name \in NameSet : AddOk(name)
    \/ \E name \in NameSet : AddFail(name)
    \/ \E name \in NameSet : Get(name)
    \/ \E name \in NameSet : GetPtr(name)
    \/ \E name \in NameSet : Present(name)
    \/ Destroy
SpecRegistry == InitRegistry /\ [][NextRegistry]_vars

InitScene ==
    /\ RegistryIdle /\ SceneInit /\ DrawIdle /\ MaterialIdle /\ AppIdle
    /\ RebuildIdle /\ PrepareIdle /\ MemoryIdle /\ LifetimeIdle /\ LightIdle
NextScene ==
    \/ LoadMesh
    \/ CreateBufferFails
    \/ LoadMeshesDone
    \/ AllocateDescriptorSet
    \/ LoadMeshesReturn
    \/ BuildShadowmapCommandBuffer
    \/ BuildDeferredCommandBuffer
SpecScene == InitScene /\ [][NextScene]_vars

InitDraw ==
    /\ RegistryIdle /\ SceneIdle /\ DrawInit /\ MaterialIdle /\ AppIdle
    /\ RebuildIdle /\ PrepareIdle /\ MemoryIdle /\ LifetimeIdle /\ LightIdle
NextDraw ==
    \/ PrepareFrame
    \/ SubmitShadow
    \/ SubmitDeferred
    \/ SubmitComposition
    \/ SubmitFrame
    \/ PresentWait
    \/ AcquireSignal
    \/ \E s \in 1 .. Len(status) : GpuStart(s)
    \/ \E s \in 1 .. Len(status) : GpuFinish(s)
    \/ GpuPresent
SpecDraw == InitDraw /\ [][NextDraw]_vars

InitMaterials ==
    /\ RegistryIdle /\ SceneIdle /\ DrawIdle /\ MaterialInit /\ AppIdle
    /\ RebuildIdle /\ PrepareIdle /\ MemoryIdle /\ LifetimeIdle /\ LightIdle
NextMaterials ==
    \/ AddDummyTextures
    \/ \E aMat \in ImportedMaterials : LoadMaterial(aMat)
    \/ LoadMaterialsDone
SpecMaterials == InitMaterials /\ [][NextMaterials]_vars

InitApp ==
    /\ RegistryIdle /\ SceneIdle /\ DrawIdle /\ MaterialIdle /\ AppInit
    /\ RebuildIdle /\ PrepareIdle /\ MemoryIdle /\ LifetimeIdle /\ LightIdle
NextApp ==
    \/ \E result \in {"ok", "failed"}, m \in 0 .. MaxMaterials, n \in 0 .. MaxMeshes :
          SceneLoad(result, m, n)
    \/ BeginCopy
    \/ SubmitCopy
    \/ \E u \in 1 .. Len(uploads) : GpuCopy(u)
    \/ QueueWaitIdle
    \/ ReleaseStaging
    \/ SceneLoadReturn
    \/ PrepareBuild
    \/ Render
    \/ ToggleDebugDisplay
    \/ ToggleSSAO
SpecApp == InitApp /\ [][NextApp]_vars

InitRebuild ==
    /\ RegistryIdle /\ SceneIdle /\ DrawIdle /\ MaterialIdle /\ AppIdle
    /\ RebuildInit /\ PrepareIdle /\ MemoryIdle /\ LifetimeIdle /\ LightIdle
NextRebuild ==
    \/ PrepareBuildShadowmap
    \/ PrepareBuildCommandBuffers
    \/ PrepareBuildDeferred
    \/ DrawFrame
    \/ QueueRetire
    \/ KeyF1
    \/ KeyF2
    \/ ReBuildCommandBuffers
    \/ RebuildDeferred
SpecRebuild == InitRebuild /\ [][NextRebuild]_vars

InitMemory ==
    /\ RegistryIdle /\ SceneIdle /\ DrawIdle /\ MaterialIdle /\ AppIdle
    /\ RebuildIdle /\ PrepareIdle /\ MemoryInit /\ LifetimeIdle /\ LightIdle
NextMemory ==
    \/ GetMemTypeIndexCall
SpecMemory == InitMemory /\ [][NextMemory]_vars

InitLights ==
    /\ RegistryIdle /\ SceneIdle /\ DrawIdle /\ MaterialIdle /\ AppIdle
    /\ RebuildIdle /\ PrepareIdle /\ MemoryIdle /\ LifetimeIdle /\ LightInit
NextLights ==
    \/ PrepareUniformBuffers
    \/ \E p \in CameraPositions : MoveCamera(p)
    \/ KeyL
    \/ RenderUpdate
SpecLights == InitLights /\ [][NextLights]_vars

InitLifetime ==
    /\ RegistryIdle /\ SceneIdle /\ DrawIdle /\ MaterialIdle /\ AppIdle
    /\ RebuildIdle /\ PrepareIdle /\ MemoryIdle /\ LifetimeInit /\ LightIdle
NextLifetime ==
    \/ ShadowCreateImage
    \/ ShadowAllocateMemory
    \/ ShadowCreateImageView
    \/ ShadowCreateSampler
    \/ PrepareShadowmapRenderpass
    \/ ShadowCreateFramebuffer
    \/ CreateAttachment
    \/ CreateOffscreenFramebuffer
    \/ CreateUniformBuffers
    \/ CreateMeshBuffers
    \/ CreateGlobalBuffers
    \/ CreateShadowmapCommandBuffer
    \/ CreateDeferredCommandBuffer
    \/ RecreateDeferredCommandBuffer
    \/ DestroyExample
    \/ DestroyScene
SpecLifetime == InitLifetime /\ [][NextLifetime]_vars

ImportedMaterialKinds ==
    UNION {[1 .. m -> MaterialKinds] : m \in 0 .. MaxMaterials}

InitPrepare ==
    /\ RegistryIdle /\ SceneIdle /\ DrawIdle /\ MaterialIdle /\ AppIdle
    /\ RebuildIdle /\ PrepareInit /\ MemoryIdle /\ LifetimeIdle /\ LightIdle
NextPrepare ==
    \/ \E result \in {"ok", "failed"}, mats \in ImportedMaterialKinds :
          ImportScene(result, mats)
    \/ CallAdd
    \/ CallGet
    \/ CallAddIfAbsent
    \/ FinishStep
    \/ ToggleRecord
    \/ Render
SpecPrepare == InitPrepare /\ [][NextPrepare]_vars

(***************************************************************************)
(* Claims about the frame submission (checked under SpecDraw).             *)
(***************************************************************************)
\* the command buffer the s-th submission of a frame is expected to carry
ExpectedCmd(s) ==
    IF s <= NUM_LIGHTS THEN shadowCommandBuffer(s - 1)
    ELSE IF s = NUM_LIGHTS + 1 THEN deferredCmdBuffer
    ELSE drawCmdBuffer

\* C1: the submissions of a frame are issued in the order shadowPass[0..N-1],
\* geometry pass, composition pass; each waits on exactly one semaphore and
\* signals exactly one; the first waits on presentComplete, every later one
\* waits on the semaphore the submission right before it signals, the last
\* signals renderComplete, and when draw() reaches submitFrame all N+2
\* submissions have been issued.
C1_SubmissionChain ==
    /\ Len(submissions) <= NUM_LIGHTS + 2
    /\ \A s \in 1 .. Len(submissions) :
          /\ submissions[s].cmd = ExpectedCmd(s)
          /\ Cardinality(submissions[s].wait) = 1
          /\ Cardinality(submissions[s].signal) = 1
          /\ submissions[s].wait =
                IF s = 1 THEN {presentComplete} ELSE submissions[s - 1].signal
          /\ (s = NUM_LIGHTS + 2) => (submissions[s].signal = {renderComplete})
          /\ \A t \in 1 .. Len(submissions) :
                (t # s) => (submissions[t].signal # submissions[s].signal)
    /\ (drawPc.at \in {"submitFrame", "presentWait"})
          => (Len(submissions) = NUM_LIGHTS + 2)

C1_Witness ==
    /\ drawPc.at = "presentWait"
    /\ Len(submissions) = NUM_LIGHTS + 2
    /\ frame = 1

\* C2: in every execution order the semaphores allow, the composition pass
\* of a frame starts only after all NUM_LIGHTS shadow passes and the geometry
\* pass of that frame have completed, and the present starts only after the
\* composition pass has completed.
C2_CompositionAfterPasses ==
    /\ \A s \in 1 .. Len(status) :
          (submissions[s].cmd = drawCmdBuffer /\ status[s] # "pending") =>
              /\ \A i \in 0 .. NUM_LIGHTS - 1 :
                    \E t \in 1 .. Len(status) :
                        /\ submissions[t].cmd = shadowCommandBuffer(i)
                        /\ status[t] = "done"
              /\ \E t \in 1 .. Len(status) :
                    /\ submissions[t].cmd = deferredCmdBuffer
                    /\ status[t] = "done"
    /\ (presented = "done") =>
          \E s \in 1 .. Len(status) :
              /\ submissions[s].cmd = drawCmdBuffer
              /\ status[s] = "done"

C2_Witness ==
    /\ presented = "done"
    /\ \E s \in 1 .. Len(status) :
          submissions[s].cmd = drawCmdBuffer /\ status[s] = "done"

(***************************************************************************)
(* Claims about the resource registries (checked under SpecRegistry).      *)
(***************************************************************************)
\* C3: the registry agrees with the reference finite map: present(name) is
\* true exactly when add(name, ...) has been called for that name, and the
\* handle stored under a present name is the one most recently added under it.
C3_AgreesWithReferenceMap ==
    \A name \in NameSet :
        /\ present(resources, name) <=> (name \in DOMAIN reference)
        /\ present(resources, name) /\ (name \in DOMAIN reference)
              => (resources[name] = reference[name])

\* the number of release calls issued for the handle values 0..h
RECURSIVE ReleaseCalls(_)
ReleaseCalls(h) == IF h < 0 THEN 0 ELSE released[h] + ReleaseCalls(h - 1)

\* C4: the destructor issues exactly one release call per entry the registry
\* holds, releases no handle twice, and releases only handles that an add
\* call on this registry created.
C4_TeardownReleasesOwnedOnce ==
    destroyed =>
        /\ ReleaseCalls(MaxAdds) = Cardinality(DOMAIN resources)
        /\ \A h \in HandleValues : released[h] <= 1
        /\ \A h \in HandleValues : (released[h] > 0) => (h \in created)

\* C5: a second add under a name replaces the stored handle; the handle it
\* replaces is released neither by that add nor by the destructor.
C5_OverwriteLeaksFirstHandle ==
    /\ (lastOp.op = "add" /\ lastOp.ok) =>
          /\ present(resources, lastOp.name)
          /\ resources[lastOp.name] = lastOp.result
          /\ lastOp.result \notin overwritten
    /\ \A h \in overwritten :
          /\ released[h] = 0
          /\ \A name \in DOMAIN resources : resources[name] # h

C5_Witness ==
    /\ destroyed
    /\ overwritten # {}
    /\ \E h \in created \ overwritten : released[h] = 1

AfterLoadMeshes == scenePc \in {"loaded", "shadowRecorded", "recorded"}

\* every triangle index of imported mesh k is smaller than its vertex count
IndicesInRange(k) ==
    \A j \in 1 .. 3 * aScene[k].mNumFaces :
        LocalIndices(aScene[k].mNumFaces)[j] < aScene[k].mNumVertices

\* the number of vertices of the imported meshes 1..k
RECURSIVE VerticesUpTo(_)
VerticesUpTo(k) ==
    IF k = 0 THEN 0 ELSE VerticesUpTo(k - 1) + aScene[k].mNumVertices

\* the number of triangle indices of the imported meshes 1..k
RECURSIVE IndicesUpTo(_)
IndicesUpTo(k) ==
    IF k = 0 THEN 0 ELSE IndicesUpTo(k - 1) + 3 * aScene[k].mNumFaces

\* C7: after loadMeshes on a model whose triangle indices are all smaller
\* than their mesh's vertex count, every mesh's index range ends inside the
\* global index list and every global index in it is smaller than the global
\* vertex count.
C7_IndexRangesInBounds ==
    (AfterLoadMeshes /\ \A k \in 1 .. Len(aScene) : IndicesInRange(k)) =>
        \A k \in 1 .. Len(meshes) :
            /\ meshes[k].indexBase + meshes[k].indexCount <= Len(gIndices)
            /\ \A p \in meshes[k].indexBase .. meshes[k].indexBase + meshes[k].indexCount - 1 :
                  gIndices[p + 1] < Len(gVertices)

C7_Witness ==
    /\ AfterLoadMeshes
    /\ Len(meshes) = 2
    /\ \A k \in 1 .. Len(aScene) : IndicesInRange(k)
    /\ aScene[1].mNumFaces = 2
    /\ aScene[2].mNumFaces = 1

\* C8 as stated: after loadMeshes the indexBase values are strictly
\* increasing in mesh order, the index ranges of the meshes partition
\* [0, total index count) without gaps or overlaps, and indexCount is three
\* times the triangle count.
C8_StrictlyIncreasingPartition ==
    AfterLoadMeshes =>
        /\ Len(meshes) = Len(aScene)
        /\ \A k \in 1 .. Len(meshes) :
              /\ meshes[k].indexCount = 3 * aScene[k].mNumFaces
              /\ meshes[k].indexBase = IF k = 1 THEN 0
                    ELSE meshes[k - 1].indexBase + meshes[k - 1].indexCount
              /\ (k = Len(meshes)) =>
                    (meshes[k].indexBase + meshes[k].indexCount = Len(gIndices))
        /\ (Len(meshes) = 0) => (Len(gIndices) = 0)
        /\ \A k \in 1 .. Len(meshes) - 1 :
              meshes[k].indexBase < meshes[k + 1].indexBase

\* C8 as amended: the same, with the indexBase values non-decreasing, and
\* increasing from every mesh that has at least one triangle to the next.
C8_NonDecreasingPartition ==
    AfterLoadMeshes =>
        /\ Len(meshes) = Len(aScene)
        /\ \A k \in 1 .. Len(meshes) :
              /\ meshes[k].indexCount = 3 * aScene[k].mNumFaces
              /\ meshes[k].indexBase = IF k = 1 THEN 0
                    ELSE meshes[k - 1].indexBase + meshes[k - 1].indexCount
              /\ (k = Len(meshes)) =>
                    (meshes[k].indexBase + meshes[k].indexCount = Len(gIndices))
        /\ (Len(meshes) = 0) => (Len(gIndices) = 0)
        /\ \A k \in 1 .. Len(meshes) - 1 :
              /\ meshes[k].indexBase <= meshes[k + 1].indexBase
              /\ (aScene[k].mNumFaces > 0) =>
                    (meshes[k].indexBase < meshes[k + 1].indexBase)

C8_Witness ==
    /\ AfterLoadMeshes
    /\ Len(meshes) = 2
    /\ aScene[1].mNumFaces = 0
    /\ aScene[2].mNumFaces = 2
    /\ meshes[1].indexBase = meshes[2].indexBase

\* C9: for every mesh k and every j < indexCount(k), the global index at
\* indexBase(k) + j is the mesh's j-th local triangle index plus the number
\* of vertices the earlier meshes appended, and the global vertex list is the
\* concatenation of the meshes' vertices in mesh order.
C9_GlobalIndicesAreOffsetLocals ==
    AfterLoadMeshes =>
        /\ \A k \in 1 .. Len(meshes) :
              \A j \in 0 .. meshes[k].indexCount - 1 :
                  /\ meshes[k].indexBase + j < Len(gIndices)
                  /\ j < 3 * aScene[k].mNumFaces
                  /\ gIndices[meshes[k].indexBase + j + 1] =
                        LocalIndices(aScene[k].mNumFaces)[j + 1] + VerticesUpTo(k - 1)
        /\ Len(gIndices) = IndicesUpTo(Len(aScene))
        /\ Len(gVertices) = VerticesUpTo(Len(aScene))
        /\ \A k \in 1 .. Len(aScene) :
              \A j \in 1 .. aScene[k].mNumVertices :
                  gVertices[VerticesUpTo(k - 1) + j] = << k, j - 1 >>

C9_Witness ==
    /\ AfterLoadMeshes
    /\ Len(meshes) = 2
    /\ aScene[1].mNumVertices = 4
    /\ aScene[1].mNumFaces = 2
    /\ aScene[2].mNumFaces = 2
    /\ gIndices[meshes[2].indexBase + 1] = 4

\* the positions of the global vertex list that hold mesh k's own vertices
OwnVertices(k) == VerticesUpTo(k - 1) .. VerticesUpTo(k) - 1

\* a recorded mesh draw reads exactly its mesh's index range and fetches only
\* its mesh's own vertices
DrawReadsOwnRange(d) ==
    /\ IndexPositions(d) =
          meshes[d.mesh].indexBase .. meshes[d.mesh].indexBase + meshes[d.mesh].indexCount - 1
    /\ FetchedVertices(d) \subseteq OwnVertices(d.mesh)
    /\ \A v \in FetchedVertices(d) : v < Len(gVertices)

\* C10: every mesh draw recorded in the shadow passes and in the geometry
\* pass reads exactly the index range [indexBase, indexBase + indexCount) of
\* the global index buffer, so that for every model with in-range indices the
\* vertices it fetches are the mesh's own and lie below the global vertex
\* count.
C10_DrawsReadOwnIndexRange ==
    (scenePc = "recorded" /\ \A k \in 1 .. Len(aScene) : IndicesInRange(k)) =>
        /\ \A l \in 0 .. NUM_LIGHTS - 1 :
              \A n \in 1 .. Len(shadowDraws[l]) : DrawReadsOwnRange(shadowDraws[l][n])
        /\ \A n \in 1 .. Len(deferredDraws) : DrawReadsOwnRange(deferredDraws[n])

(***************************************************************************)
(* Claims about the material import (checked under SpecMaterials).         *)
(***************************************************************************)
\* the texture file the imported material i names for a channel of
\* SceneMaterial
Referenced(i, ch) ==
    CASE ch = "diffuse" -> aMaterials[i].diffuse
      [] ch = "bump" -> aMaterials[i].height
      [] ch = "roughness" -> aMaterials[i].ambient
      [] ch = "metallic" -> aMaterials[i].specular

\* the file names the channels of the imported materials refer to, with
\* forward slashes
ReferencedPaths ==
    { [j \in 1 .. Len(Referenced(i, ch)) |->
          IF Referenced(i, ch)[j] = "\\" THEN "/" ELSE Referenced(i, ch)[j]] :
      << i, ch >> \in { ic \in (1 .. Len(aMaterials)) \X Channels :
                           Referenced(ic[1], ic[2]) # NoTexture } }

SamePath(p, q) ==
    /\ Len(p) = Len(q)
    /\ \A j \in 1 .. Len(p) :
          (IF p[j] = "\\" THEN "/" ELSE p[j]) = (IF q[j] = "\\" THEN "/" ELSE q[j])

DummyNames == { DummyName[ch] : ch \in Channels }

C12_DefaultsAndFlags ==
    /\ (matPc # "loadMaterials") =>
          \A ch \in Channels :
              /\ DummyFile[ch] \in DOMAIN loads
              /\ loads[DummyFile[ch]] = 1
              /\ DummyName[ch] \in DOMAIN textures
              /\ textures[DummyName[ch]] # NullHandle
    /\ (matPc = "loadMaterials") => (materials = << >>)
    /\ \A i \in 1 .. Len(materials) :
          /\ \A ch \in Channels :
                (Referenced(i, ch) = NoTexture)
                    => (materials[i][ch] = textures[DummyName[ch]])
          /\ materials[i].hasBump <=> (aMaterials[i].height # NoTexture)
          /\ materials[i].hasRoughness <=> (aMaterials[i].ambient # NoTexture)
          /\ materials[i].hasMetaliness <=> (aMaterials[i].specular # NoTexture)

C12_Witness ==
    /\ matPc = "done"
    /\ Len(materials) = 2
    /\ aMaterials[1].diffuse = NoTexture
    /\ aMaterials[1].height = NoTexture
    /\ aMaterials[1].ambient = PathSlash
    /\ aMaterials[2].specular = NoTexture
    /\ materials[1].hasRoughness
    /\ ~materials[1].hasBump
    /\ materials[1].bump = textures[DummyName.bump]

(***************************************************************************)
(* Claims about the descriptor sets and the recorded passes (SpecScene).   *)
(***************************************************************************)
\* C16: the scene descriptor pool is created for M sets, M uniform-buffer
\* descriptors and 4 * M combined-image-sampler descriptors, M being the mesh
\* count; every allocated set takes one uniform-buffer and four sampler
\* descriptors, the samplers being the textures of the set's own mesh; the
\* sets allocated never exceed any of the three capacities, and when
\* loadMeshes returns there is exactly one set per mesh.
C16_DescriptorPoolSizedForMeshes ==
    /\ descriptorPool.created =>
          /\ descriptorPool.maxSets = Len(aScene)
          /\ descriptorPool.uniformBuffers = Len(aScene)
          /\ descriptorPool.combinedImageSamplers = 4 * Len(aScene)
    /\ PoolUse(descriptorSets).sets <= descriptorPool.maxSets
    /\ PoolUse(descriptorSets).uniformBuffers <= descriptorPool.uniformBuffers
    /\ PoolUse(descriptorSets).combinedImageSamplers
          <= descriptorPool.combinedImageSamplers
    /\ \A i \in 1 .. Len(descriptorSets) :
          /\ Len(descriptorSets[i].uniformBuffers) = 1
          /\ Len(descriptorSets[i].combinedImageSamplers) = 4
          /\ \A b \in 1 .. 4 : descriptorSets[i].combinedImageSamplers[b][1] = i
          /\ \A j \in 1 .. Len(descriptorSets) :
                (i # j) => (descriptorSets[i].set # descriptorSets[j].set)
    /\ descriptorPool.created => (scenePc # "aborted")
    /\ AfterLoadMeshes => (Len(descriptorSets) = Len(meshes))

C16_Witness ==
    /\ scenePc = "loaded"
    /\ Len(meshes) = 2
    /\ descriptorPool.combinedImageSamplers = 8
    /\ PoolUse(descriptorSets).combinedImageSamplers = 8
    /\ PoolUse(descriptorSets).sets = 2

\* C17: for an imported model without meshes the load raises no error, the
\* global vertex and index lists are empty, no descriptor set is allocated
\* and the geometry pass holds no scene mesh draw.
C17_ZeroMeshesLoadWithoutError ==
    (scenePc # "idle" /\ Len(aScene) = 0) =>
        /\ scenePc # "aborted"
        /\ gVertices = << >>
        /\ gIndices = << >>
        /\ descriptorSets = << >>
        /\ deferredDraws = << >>

\* the scene meshes a sequence of recorded draws names, in order
DrawnMeshes(draws) == [n \in 1 .. Len(draws) |-> draws[n].mesh]

\* the sequence names exactly the scene meshes whose hasAlpha is alpha, each
\* once, in mesh order
ExactlyMeshesWith(seq, alpha) ==
    /\ \A n \in 1 .. Len(seq) :
          /\ seq[n] \in 1 .. Len(meshes)
          /\ aScene[seq[n]].hasAlpha = alpha
    /\ \A n \in 1 .. Len(seq) - 1 : seq[n] < seq[n + 1]
    /\ \A k \in 1 .. Len(meshes) :
          (aScene[k].hasAlpha = alpha) => (\E n \in 1 .. Len(seq) : seq[n] = k)

\* the light-space matrices the shadow vertex shader can index
\* (offscreen.vert: mat4 depthMVP[NUM_LIGHTS])
ShaderLights == 0 .. NUM_LIGHTS - 1

\* C18: the command buffer of every shadow pass i holds one draw per mesh
\* with hasAlpha false, in mesh order, none for a mesh with hasAlpha true,
\* and the push constant i, which is an index of a light-space matrix.
C18_ShadowPassDrawsOpaqueMeshes ==
    (scenePc \in {"shadowRecorded", "recorded"}) =>
        \A i \in 0 .. NUM_LIGHTS - 1 :
            /\ ExactlyMeshesWith(DrawnMeshes(shadowDraws[i]), FALSE)
            /\ shadowPush[i] = i
            /\ shadowPush[i] \in ShaderLights

C18_Witness ==
    /\ scenePc = "shadowRecorded"
    /\ Len(meshes) = 2
    /\ aScene[1].hasAlpha
    /\ ~aScene[2].hasAlpha
    /\ Len(shadowDraws[2]) = 1
    /\ shadowDraws[2][1].mesh = 2
    /\ shadowPush[2] = 2

\* the positions of the geometry pass commands that are draws
DrawPositions == { p \in 1 .. Len(deferredCmds) : deferredCmds[p].cmd = "drawIndexed" }

\* C19: in the geometry pass the sky draw comes first, then one draw per
\* mesh with hasAlpha false, then one per mesh with hasAlpha true; every
\* scene mesh is drawn exactly once, and each mesh draw directly follows a
\* bind of that mesh's own descriptor set.
C19_GeometryPassOrder ==
    (scenePc = "recorded") =>
        /\ DrawPositions # {}
        /\ \A p \in DrawPositions :
              (deferredCmds[p].name = "skysphere") <=> (\A q \in DrawPositions : p <= q)
        /\ \A k \in 1 .. Len(meshes) :
              Cardinality({ p \in DrawPositions : deferredCmds[p].mesh = k }) = 1
        /\ \A p \in DrawPositions, q \in DrawPositions :
              ( /\ deferredCmds[p].mesh # 0
                /\ deferredCmds[q].mesh # 0
                /\ aScene[deferredCmds[p].mesh].hasAlpha
                /\ ~aScene[deferredCmds[q].mesh].hasAlpha ) => (q < p)
        /\ \A p \in DrawPositions :
              (deferredCmds[p].mesh # 0) =>
                  /\ p > 1
                  /\ deferredCmds[p - 1].cmd = "bindDescriptorSets"
                  /\ deferredCmds[p - 1].set = descriptorSets[deferredCmds[p].mesh].set
        /\ DrawnMeshes(deferredDraws) =
              [n \in 1 .. Len(deferredDraws) |->
                  deferredCmds[CHOOSE p \in DrawPositions :
                      Cardinality({ q \in DrawPositions : q < p }) = n].mesh]

C19_Witness ==
    /\ scenePc = "recorded"
    /\ Len(meshes) = 2
    /\ aScene[1].hasAlpha
    /\ ~aScene[2].hasAlpha
    /\ Len(deferredCmds) = 9
    /\ deferredCmds[6].mesh = 2
    /\ deferredCmds[9].mesh = 1

(***************************************************************************)
(* Claims about the load, the uploads and the toggles (SpecApp).           *)
(***************************************************************************)
\* C13: when the import fails, Scene::load reports the error and creates
\* nothing: no material, no mesh, no texture, no buffer, no descriptor pool,
\* layout or descriptor set, and no upload is made.
C13_FailedImportLeavesSceneEmpty ==
    (importResult = "failed") =>
        /\ errorReported
        /\ loaded.materials = 0
        /\ loaded.meshes = 0
        /\ loaded.dummyTextures = 0
        /\ loaded.buffers = 0
        /\ ~loaded.descriptorPool
        /\ loaded.layouts = 0
        /\ loaded.descriptorSets = 0
        /\ uploads = << >>

C13_Witness ==
    /\ importResult = "failed"
    /\ errorReported
    /\ appPc = "build"

\* C14: when the import fails during prepare(), no shadow or geometry pass
\* command buffer is recorded, prepared is never set and no frame is
\* submitted.
C14_FailedImportStopsPrepare ==
    (importResult = "failed") =>
        /\ builds.shadow = 0
        /\ builds.deferred = 0
        /\ ~prepared
        /\ framesSubmitted = 0

\* C15: staging buffers are released only after their copy was submitted and
\* the queue was waited on until idle; the copy command buffer is not begun
\* while an earlier copy is pending; once prepare() has completed, every
\* upload of the load is over and there is none besides them.
C15_UploadsWaitBeforeRelease ==
    /\ \A u \in 1 .. Len(uploads) :
          /\ (uploads[u].staging = "released") =>
                /\ uploads[u].cpu = "released"
                /\ uploads[u].gpu = "done"
          /\ (uploads[u].cpu = "recording") =>
                \A v \in 1 .. Len(uploads) : uploads[v].gpu # "pending"
          /\ (u < Len(uploads)) => (uploads[u].staging = "released")
    /\ prepared =>
          /\ Len(uploads) = (IF importResult = "ok" THEN loaded.meshes + 1 ELSE 0)
          /\ \A u \in 1 .. Len(uploads) : uploads[u].staging = "released"

C15_Witness ==
    /\ prepared
    /\ framesSubmitted > 0
    /\ Len(uploads) = 3
    /\ \A u \in 1 .. Len(uploads) : uploads[u].staging = "released"

\* C20: once prepare() has completed, whatever toggles follow, every
\* composition command buffer is recorded with the current debugDisplay; the
\* shadow pass command buffers were recorded once, the geometry pass command
\* buffer once in prepare() and once more per SSAO toggle.
C20_CompositionMatchesDebugDisplay ==
    /\ prepared =>
          /\ \A i \in 1 .. MaxImages :
                /\ drawCmdBuffers[i].recorded
                /\ drawCmdBuffers[i].debugDraw <=> debugDisplay
          /\ builds.shadow = 1
          /\ builds.deferred = 1 + toggles.ssao
          /\ builds.composition = 1 + toggles.debugDisplay + toggles.ssao
    /\ ~prepared => (builds.shadow = 0 /\ builds.deferred = 0)

C20_Witness ==
    /\ prepared
    /\ debugDisplay
    /\ toggles.debugDisplay = 1
    /\ toggles.ssao = 1
    /\ \A i \in 1 .. MaxImages : drawCmdBuffers[i].debugDraw

(***************************************************************************)
(* Claims about the re-recording of command buffers (checked under         *)
(* SpecRebuild).                                                           *)
(***************************************************************************)
\* C21: in every interleaving of frame submissions, queue progress and toggle
\* calls, no command buffer is re-recorded or freed while a submission that
\* names it is still pending on the queue, and while the CPU thread is inside
\* a toggle (from the device-idle wait to the end of the re-recording) the
\* queue is handed no new submission.
C21_NoRerecordInFlight ==
    /\ \A r \in rerecords : ~r.pending
    /\ (rbPc = "buildDeferredCommandBuffer(true)") => (pending = << >>)

C21_Witness ==
    /\ rbPc = "running"
    /\ \E r \in rerecords : r.op = "free" /\ r.frames >= 1
    /\ \E r \in rerecords : r.op = "record" /\ r.cmd = DrawCmd(0) /\ r.frames >= 1
    /\ pending # << >>

\* C27: after prepare() and after any sequence of frames and toggleSSAO /
\* toggleDebugDisplay calls, at most one deferred-complete semaphore exists
\* that has been created and not destroyed, and the semaphore the geometry
\* pass signals is the one the composition pass waits on.
C27_OneDeferredSemaphore ==
    (rbPc = "running") =>
        /\ Cardinality(liveSemaphores) <= 1
        /\ \A s \in 1 .. Len(pending) - 1 :
              (pending[s].cmd[1] = "deferred") =>
                  (pending[s + 1].wait = pending[s].signal)

\* C30: for every render pass begun while recording (shadow, geometry,
\* composition), the clear-value count of the begin info is no larger than
\* the number of elements of the clear-value array it points to.
C30_ClearValueCountWithinArray ==
    \A b \in passBegins : b.clearValueCount <= b.clearValues

(***************************************************************************)
(* Claims about getMemTypeIndex (checked under SpecMemory).                *)
(***************************************************************************)
\* memory type i is allowed by typeBits and has all requested property flags
Suitable(i) ==
    /\ (memTypeBits \div Pow2(i)) % 2 = 1
    /\ BitAnd(PropertyFlagsOf(memoryTypes, i), memProperties) = memProperties

\* C23: for every typeBits mask and every property mask, getMemTypeIndex
\* returns an index whose bit is set in typeBits and whose memory type has
\* all requested property flags, and it is the lowest such index.
C23_ReturnsLowestSuitableType ==
    (memPc = "returned") =>
        /\ Suitable(memTypeIndex)
        /\ \A i \in 0 .. memTypeIndex - 1 : ~Suitable(i)

(***************************************************************************)
(* Claims about the lights (checked under SpecLights).                     *)
(***************************************************************************)
\* C29: after every per-frame update, for each light the matrix uploaded for
\* rendering its shadow map equals the lightSpace uploaded for sampling it in
\* composition, and that lightSpace is the one computed from the light's
\* uploaded position and direction, also after the attach-light-to-camera
\* toggle has moved light 0.
C29_LightSpaceFollowsLight ==
    (lightPc = "running") =>
        \A i \in 1 .. NUM_LIGHTS :
            /\ shadowmapBuffer[i] = sceneLightsBuffer[i].lightSpace
            /\ sceneLightsBuffer[i].lightSpace =
                  LightSpace(sceneLightsBuffer[i].position, sceneLightsBuffer[i].dir)

(***************************************************************************)
(* Claims about the lifetime of device objects (checked under              *)
(* SpecLifetime).                                                          *)
(***************************************************************************)
SceneLoaded ==
    lifePc.at \in {"buildShadowmapCommandBuffer", "buildDeferredCommandBuffer",
                   "prepared", "delete(scene)", "destroyed"}

\* the objects of a kind, and those of them a member of light i holds or held
OfKind(type) == {o \in objects : o.kind = type}
OfLight(type, i) == {o \in OfKind(type) : o.member[1] = "shadowmapPass" /\ o.member[2] = i}

\* C24: after a successful scene load the scene owns exactly two device-local
\* buffers, the global vertex buffer and the global index buffer: no mesh
\* owns a vertex or index buffer of its own, whatever the mesh count.
C24_OnlyGlobalBuffers ==
    SceneLoaded =>
        /\ Cardinality(OfKind("deviceLocalBuffer")) = 2
        /\ \A o \in OfKind("deviceLocalBuffer") : o.member[1] = "scene"

\* C25: prepare() creates, for each light, exactly one render pass, one
\* framebuffer, one depth image with its view and memory, one depth sampler,
\* one command buffer and one semaphore; the number of shadow render passes
\* equals NUM_LIGHTS, and the framebuffer of light i was created with the
\* render pass that shadowmapPass[i].renderPass holds after prepare().
C25_OneShadowObjectPerLight ==
    (lifePc.at = "prepared") =>
        \A i \in 0 .. NUM_LIGHTS - 1 :
            /\ \A type \in {"renderPass", "framebuffer", "image", "imageView",
                            "sampler", "commandBuffer", "semaphore"} :
                  Cardinality(OfLight(type, i)) = 1
            /\ \A f \in OfLight("framebuffer", i) :
                  f.with = held[ShadowMember(i, "renderPass")]

\* the attachments, render passes, framebuffers and scene buffers
OwnedByRenderPasses ==
    {o \in objects :
        \/ o.kind \in {"renderPass", "framebuffer", "deviceLocalBuffer"}
        \/ o.kind \in {"image", "imageView", "memory"}
              /\ o.member[1] \in {"shadowmapPass", "frameBuffers.offscreen",
                                  "frameBuffers.offscreen.attachments"}}

\* C26: after the destructors of VulkanExample and Scene have run, every
\* frame buffer attachment (image, view, memory), every render pass, every
\* framebuffer and every scene buffer created by the program has been
\* destroyed exactly once.
C26_TeardownDestroysAttachments ==
    (lifePc.at = "destroyed") =>
        \A o \in OwnedByRenderPasses : destroys[o.serial] = 1

C28_LookupsFindAddedNames ==
    /\ \A l \in lookups : l.found
    /\ defaults = {}
====
